---- MODULE Spec2Model ----
(***************************************************************************)
(* IEC 62056-21 Mode C meter driver (omnicore-meter-suite, src-tauri).     *)
(*                                                                         *)
(* The facade of commands/mod.rs is modelled as a state machine over the   *)
(* process-wide ConnectionManager (commands/state.rs) and the serial port  *)
(* handles the commands open, take, store and drop.  Every command is a    *)
(* chain of steps, one per lock region or serial I/O call of its code; the *)
(* meter and the port are the environment and choose every I/O outcome.    *)
(*                                                                         *)
(* The serial device is opened exclusively by the serialport crate, so an  *)
(* open succeeds only while no other handle of the device is open.         *)
(***************************************************************************)
EXTENDS Naturals, Integers, Sequences, FiniteSets, TLC

VARIABLES
    port,                 \* ConnectionManager.port: <<>> or <<handle>>
    params,               \* ConnectionManager.params: <<>> or <<ConnectionParams>>
    identity,             \* ConnectionManager.identity: <<>> or <<MeterIdentity>>
    connected,            \* ConnectionManager.connected
    in_programming_mode,  \* ConnectionManager.in_programming_mode
    negotiated_baud,      \* ConnectionManager.negotiated_baud
    hdl,                  \* the serial port handles: open flag, baud, frames written
    wire,                 \* the frame written last, and the caller that wrote it
    th,                   \* per caller: the running command, its position and locals
    rd,                   \* one run of a read loop
    codec                 \* one application of a function of the codec

vars == <<port, params, identity, connected, in_programming_mode,
          negotiated_baud, hdl, wire, th, rd, codec>>

session == <<port, params, identity, connected, in_programming_mode, negotiated_baud>>

(***************************************************************************)
(* Option<T>                                                               *)
(***************************************************************************)
None == <<>>
Some(x) == <<x>>
IsSome(o) == o # <<>>

(***************************************************************************)
(* Codec: baud map (serial/iec62056.rs)                                    *)
(***************************************************************************)
BaudChars == {"0", "1", "2", "3", "4", "5", "6"}

baud_rate_from_char(c) ==
    CASE c = "0" -> Some(300)
      [] c = "1" -> Some(600)
      [] c = "2" -> Some(1200)
      [] c = "3" -> Some(2400)
      [] c = "4" -> Some(4800)
      [] c = "5" -> Some(9600)
      [] c = "6" -> Some(19200)
      [] OTHER   -> None

char_from_baud_rate(baud) ==
    CASE baud = 300   -> Some("0")
      [] baud = 600   -> Some("1")
      [] baud = 1200  -> Some("2")
      [] baud = 2400  -> Some("3")
      [] baud = 4800  -> Some("4")
      [] baud = 9600  -> Some("5")
      [] baud = 19200 -> Some("6")
      [] OTHER        -> None

(***************************************************************************)
(* Session driver: baud resolution (commands/io.rs)                        *)
(***************************************************************************)
\* A variant that tries the three rates of the serial list for auto as well.
resolve_initial_bauds_auto_as_serial(connection_type, configured_baud) ==
    CASE connection_type = "optical" -> <<300>>
      [] OTHER ->
            IF configured_baud > 0 THEN <<configured_baud>> ELSE <<9600, 300, 19200>>

resolve_initial_bauds(connection_type, configured_baud) ==
    CASE connection_type = "optical" -> <<300>>
      [] connection_type = "auto" ->
            IF configured_baud > 0 THEN <<configured_baud>> ELSE <<9600, 300>>
      [] OTHER ->
            IF configured_baud > 0 THEN <<configured_baud>> ELSE <<9600, 300, 19200>>

\* A variant that keeps a configured baud on the optical head as well.
resolve_target_baud_keeps_configured(connection_type, configured_baud, meter_max_baud, meter_baud_char) ==
    LET target == IF configured_baud = 0 THEN meter_max_baud ELSE configured_baud
        c == char_from_baud_rate(target)
    IN [target |-> target,
        baud_char |-> IF IsSome(c) THEN c[1] ELSE meter_baud_char]

resolve_target_baud(connection_type, configured_baud, meter_max_baud, meter_baud_char) ==
    LET target == IF connection_type = "optical" \/ configured_baud = 0
                  THEN meter_max_baud ELSE configured_baud
        c == char_from_baud_rate(target)
    IN [target |-> target,
        baud_char |-> IF IsSome(c) THEN c[1] ELSE meter_baud_char]

(***************************************************************************)
(* Inputs of the model                                                     *)
(***************************************************************************)
Threads == {"t1", "t2", "t3"}
\* The caller of the sequential runs, and the two callers of the concurrent runs.
Main == "t1"
Concurrent == {"t2", "t3"}

ConnTypes == {"optical", "auto", "serial"}
ConfiguredBauds == {0, 9600, 57600}
ParamsSet == [connection_type : ConnTypes, baud_rate : ConfiguredBauds]

\* What the meter answers to the request message: nothing, bytes that are no
\* identification, or an identification line with baud char c.
IdentChars == {"0", "5"}
Garbage == [baud_char |-> "?", max_baud_rate |-> 0]
Malformed == [baud_char |-> "!", max_baud_rate |-> 0]
Idents == {[baud_char |-> c, max_baud_rate |-> baud_rate_from_char(c)[1]] : c \in IdentChars}
Responses == {None, Some(Garbage), Some(Malformed)} \cup {Some(i) : i \in Idents}

\* The lines on which a slice of parse_identification panics (markers out of
\* order, a multi-byte character across byte 3; see parse_identification_line).
ParsePanics(resp) == resp = Some(Malformed)

\* parse_identification on the classes of Responses: a line parses only when
\* its baud char is in the baud map, and max_baud_rate is that map's value.
parse_identification(resp) ==
    IF IsSome(resp) /\ IsSome(baud_rate_from_char(resp[1].baud_char))
    THEN Some([baud_char |-> resp[1].baud_char,
               max_baud_rate |-> baud_rate_from_char(resp[1].baud_char)[1]])
    ELSE None

Ops == {"connect", "disconnect", "read_full", "read_short", "read_obis",
        "read_obis_batch", "write_obis", "authenticate", "sync_time",
        "end_session", "read_load_profile", "get_connection_status"}

\* The commands that hold the session lock from entry to return.
LockedOps == {"disconnect", "read_obis", "write_obis", "sync_time", "end_session",
              "get_connection_status"}

\* The sequential caller issues every command with every parameter record.
\* Of the concurrent callers, one issues every command with the parameter
\* records of ConcParams and the other the commands of LockedOps.
ConcParams == {[connection_type |-> "optical", baud_rate |-> 0],
               [connection_type |-> "serial", baud_rate |-> 9600]}
OpsOf(t) == IF t = "t3" THEN LockedOps ELSE Ops
ParamsOf(t) == IF t = Main THEN ParamsSet ELSE ConcParams

\* The mode char of the ACK each command sends (ProtocolMode::as_char).
ModeChar(op) ==
    CASE op \in {"connect", "read_full", "read_obis_batch"} -> "0"
      [] op = "read_short" -> "6"
      [] OTHER -> "1"

(***************************************************************************)
(* Port handles                                                            *)
(***************************************************************************)
Handles == {1, 2}

\* open: the handle owns the device; baud: its configured rate; by: the
\* command that opened it; req: a request message was written to it; ack, z:
\* mode char and baud char of the mode ACK written to it; flushed: the flush
\* after that ACK returned Ok.
ClosedHandle == [open |-> FALSE, baud |-> 0, by |-> "none", req |-> FALSE,
                 ack |-> "-", z |-> "-", flushed |-> FALSE]

DeviceFree == \A h \in Handles : ~hdl[h].open
\* The handle an open returns.
Fresh == CHOOSE h \in Handles : ~hdl[h].open

Opened(H, h, baud, op) ==
    [H EXCEPT ![h] = [open |-> TRUE, baud |-> baud, by |-> op, req |-> FALSE,
                      ack |-> "-", z |-> "-", flushed |-> FALSE]]
\* Dropping the Box closes the port.
Dropped(H, h) == [H EXCEPT ![h] = ClosedHandle]


(***************************************************************************)
(* Callers                                                                 *)
(***************************************************************************)
IdleThread ==
    [pc |-> "idle", op |-> "none", res |-> "none", argok |-> TRUE,
     port |-> None, params |-> None, idx |-> 0, resp |-> None, ident |-> None,
     initial_baud |-> 0, target_baud |-> 0,
     total_read |-> 0, found_etx |-> FALSE, reuse |-> FALSE, p0 |-> "none",
     reply |-> "none", fault |-> "none", drop |-> "none", stored |-> "none",
     sent |-> FALSE, err |-> "none", holds |-> FALSE]

T(t) == th[t]
SetT(t, r) == th' = [th EXCEPT ![t] = r]
\* CONNECTION_STATE.lock() returns: no other caller holds the mutex.  A caller
\* holds it across steps (holds) only while it waits for a reply inside a
\* lock region; every other lock region is one step.
LockFree(t) == \A u \in Threads \ {t} : ~T(u).holds
\* The command returns res; its locals go out of scope.  What stays is what
\* the caller can observe of the run: the reply, the fault met (fault), how
\* the command's port was released (drop), whether its frame was written
\* (sent) and the kind of the error message (err).
Returned(r, res) ==
    [IdleThread EXCEPT !.op = r.op, !.res = res, !.argok = r.argok,
                       !.reply = r.reply, !.fault = r.fault, !.drop = r.drop,
                       !.sent = r.sent, !.err = r.err]

(***************************************************************************)
(* ConnectionManager (commands/state.rs)                                   *)
(***************************************************************************)
is_connected == connected /\ IsSome(port)

\* A disconnect that leaves in_programming_mode as it was.
ManagerDisconnectKeepsMode ==
    /\ port' = None
    /\ params' = None
    /\ identity' = None
    /\ connected' = FALSE
    /\ UNCHANGED in_programming_mode
    /\ negotiated_baud' = 300

\* ConnectionManager::disconnect; the Box it overwrites is dropped, which
\* closes the port (see DropStored).
ManagerDisconnect ==
    /\ port' = None
    /\ params' = None
    /\ identity' = None
    /\ connected' = FALSE
    /\ in_programming_mode' = FALSE
    /\ negotiated_baud' = 300

DropStored(H) == IF IsSome(port) THEN Dropped(H, port[1]) ELSE H

\* write_all(frame) of caller t went out on the wire.
Wrote(t, frame) == wire' = [frame |-> frame, op |-> T(t).op, by |-> t]

\* build_break_command written and flushed to the stored port, if there is
\* one; the results are ignored (let _ = ...).
BreakStored(t) == IF IsSome(port) THEN Wrote(t, "B0") ELSE UNCHANGED wire

Init ==
    /\ port = None
    /\ params = None
    /\ identity = None
    /\ connected = FALSE
    /\ in_programming_mode = FALSE
    /\ negotiated_baud = 300
    /\ hdl = [h \in Handles |-> ClosedHandle]
    /\ wire = [frame |-> "none", op |-> "none", by |-> "none"]
    /\ th = [t \in Threads |-> IdleThread]
    /\ rd = [pc |-> "off"]
    /\ codec = [fn |-> "none"]

(***************************************************************************)
(* A caller issues a command                                               *)
(***************************************************************************)
FirstPc(op) ==
    CASE op = "connect" -> "c_clear"
      [] op \in {"authenticate", "read_obis_batch"} -> "validate"
      [] op \in {"read_full", "read_short", "read_load_profile"} -> "params"
      [] op = "sync_time" -> "st_check"
      [] OTHER -> op

Invoke(t) ==
    /\ T(t).pc = "idle"
    /\ \E op \in OpsOf(t), p \in ParamsOf(t), ok \in BOOLEAN :
          /\ op # "connect" => p = [connection_type |-> "optical", baud_rate |-> 0]
          /\ op \notin {"authenticate", "read_obis_batch"} => ok
          /\ SetT(t, [IdleThread EXCEPT !.pc = FirstPc(op), !.op = op,
                         !.argok = ok,
                         !.params = IF op = "connect" THEN Some(p) ELSE None])
    /\ UNCHANGED <<session, hdl, wire, rd, codec>>

(***************************************************************************)
(* Steps shared by the atomic commands                                     *)
(***************************************************************************)
\* authenticate: the password is 8 ASCII digits; read_obis_batch: the code
\* list is not empty.  Checked before anything else.
\* A command that skips the check of its argument.
ValidateSkipped(t) ==
    /\ T(t).pc = "validate"
    /\ SetT(t, [T(t) EXCEPT !.pc = "params"])
    /\ UNCHANGED <<session, hdl, wire, rd, codec>>

Validate(t) ==
    /\ T(t).pc = "validate"
    /\ SetT(t, IF T(t).argok THEN [T(t) EXCEPT !.pc = "params"]
                             ELSE Returned(T(t), "err"))
    /\ UNCHANGED <<session, hdl, wire, rd, codec>>

\* Step 1: copy the stored connection parameters, or fail when there are none.
GetParams(t) ==
    /\ T(t).pc = "params"
    /\ LockFree(t)
    /\ SetT(t, IF params = None
                 THEN Returned(T(t), "err")
                 ELSE [T(t) EXCEPT !.params = params,
                         !.pc = IF T(t).op = "read_full" THEN "rf_take" ELSE "close"])
    /\ UNCHANGED <<session, hdl, wire, rd, codec>>

\* Step 2 of read_short, read_obis_batch, authenticate, read_load_profile:
\* break on the stored port if there is one, then manager.disconnect().
\* Step 2 that releases the port but keeps the stored parameters.
CloseExistingKeepsParams(t) ==
    /\ T(t).pc = "close"
    /\ LockFree(t)
    /\ BreakStored(t)
    /\ hdl' = DropStored(hdl)
    /\ port' = None
    /\ connected' = FALSE
    /\ in_programming_mode' = FALSE
    /\ UNCHANGED <<params, identity, negotiated_baud>>
    /\ SetT(t, [T(t) EXCEPT !.pc = "probe_open", !.idx = 1,
                  !.stored = IF IsSome(port) THEN "break" ELSE "none"])
    /\ UNCHANGED <<rd, codec>>

CloseExisting(t) ==
    /\ T(t).pc = "close"
    /\ LockFree(t)
    /\ BreakStored(t)
    /\ hdl' = DropStored(hdl)
    /\ ManagerDisconnect
    /\ SetT(t, [T(t) EXCEPT !.pc = "probe_open", !.idx = 1,
                  !.stored = IF IsSome(port) THEN "break" ELSE "none"])
    /\ UNCHANGED <<rd, codec>>

\* connect: "Disconnect any existing connection first", only if is_connected().
connect_clear(t) ==
    /\ T(t).pc = "c_clear"
    /\ LockFree(t)
    /\ IF is_connected
         THEN /\ BreakStored(t)
              /\ hdl' = DropStored(hdl)
              /\ ManagerDisconnect
         ELSE UNCHANGED <<session, hdl, wire>>
    /\ SetT(t, [T(t) EXCEPT !.pc = "probe_open", !.idx = 1,
                  !.stored = IF is_connected THEN "break" ELSE "none"])
    /\ UNCHANGED <<rd, codec>>

\* read_full that takes the stored port and leaves connected as it was.
read_full_take_stays_connected(t) ==
    /\ T(t).pc = "rf_take"
    /\ LockFree(t)
    /\ IF IsSome(port) /\ negotiated_baud > 0
         THEN /\ port' = None
              /\ SetT(t, [T(t) EXCEPT !.port = port, !.reuse = TRUE,
                            !.stored = "taken", !.pc = "drain"])
              /\ UNCHANGED <<params, identity, connected, in_programming_mode,
                             negotiated_baud, hdl>>
         ELSE /\ IF IsSome(port)
                   THEN hdl' = DropStored(hdl) /\ ManagerDisconnect
                   ELSE UNCHANGED <<session, hdl>>
              /\ SetT(t, [T(t) EXCEPT !.pc = "probe_open", !.idx = 1,
                            !.stored = IF IsSome(port) THEN "dropped" ELSE "none"])
    /\ UNCHANGED <<wire, rd, codec>>

\* read_full step 2: take the stored port and read directly, or go the
\* atomic way.
\* read_full that never reuses the stored port.
read_full_never_takes(t) ==
    /\ T(t).pc = "rf_take"
    /\ LockFree(t)
    /\ IF IsSome(port)
         THEN hdl' = DropStored(hdl) /\ ManagerDisconnect
         ELSE UNCHANGED <<session, hdl>>
    /\ SetT(t, [T(t) EXCEPT !.pc = "probe_open", !.idx = 1,
                  !.stored = IF IsSome(port) THEN "dropped" ELSE "none"])
    /\ UNCHANGED <<wire, rd, codec>>

read_full_take(t) ==
    /\ T(t).pc = "rf_take"
    /\ LockFree(t)
    /\ IF IsSome(port) /\ negotiated_baud > 0
         THEN /\ port' = None
              /\ connected' = FALSE
              /\ SetT(t, [T(t) EXCEPT !.port = port, !.reuse = TRUE,
                            !.stored = "taken", !.pc = "drain"])
              /\ UNCHANGED <<params, identity, in_programming_mode, negotiated_baud, hdl>>
         ELSE /\ IF IsSome(port)
                   THEN hdl' = DropStored(hdl) /\ ManagerDisconnect
                   ELSE UNCHANGED <<session, hdl>>
              /\ SetT(t, [T(t) EXCEPT !.pc = "probe_open", !.idx = 1,
                            !.stored = IF IsSome(port) THEN "dropped" ELSE "none"])
    /\ UNCHANGED <<wire, rd, codec>>

Bauds(t) == resolve_initial_bauds(T(t).params[1].connection_type,
                                  T(t).params[1].baud_rate)

\* The head of the probe loop: open the port at the next baud of the
\* sequence; after the last attempt the command fails with no port.
ProbeOpen(t) ==
    /\ T(t).pc = "probe_open"
    /\ IF T(t).idx > Len(Bauds(t))
         THEN /\ SetT(t, Returned(T(t), "err"))
              /\ UNCHANGED hdl
         ELSE \E ok \in BOOLEAN :
                /\ ok => DeviceFree
                /\ IF ok
                     THEN /\ hdl' = Opened(hdl, Fresh, Bauds(t)[T(t).idx], T(t).op)
                          /\ SetT(t, [T(t) EXCEPT !.port = Some(Fresh), !.pc = "probe_req"])
                     ELSE /\ SetT(t, [T(t) EXCEPT !.idx = @ + 1])
                          /\ UNCHANGED hdl
    /\ UNCHANGED <<session, wire, rd, codec>>

\* Write the request message; on a write error the port is dropped and the
\* loop continues.
ProbeRequest(t) ==
    /\ T(t).pc = "probe_req"
    /\ \E ok \in BOOLEAN :
         IF ok
           THEN /\ Wrote(t, "req")
                /\ hdl' = [hdl EXCEPT ![T(t).port[1]].req = TRUE]
                /\ SetT(t, [T(t) EXCEPT !.pc = "probe_read"])
           ELSE /\ hdl' = Dropped(hdl, T(t).port[1])
                /\ SetT(t, [T(t) EXCEPT !.port = None, !.idx = @ + 1, !.pc = "probe_open"])
                /\ UNCHANGED wire
    /\ UNCHANGED <<session, rd, codec>>

\* Read the identification.  connect keeps the port on any bytes and parses
\* after the loop; the other commands parse inside the loop and go on to the
\* next baud when the bytes do not parse.
\* A probe loop that goes on to the next baud after an identification parsed.
ProbeReadGoesOn(t) ==
    /\ T(t).pc = "probe_read"
    /\ \E resp \in Responses :
         /\ hdl' = Dropped(hdl, T(t).port[1])
         /\ SetT(t, [T(t) EXCEPT !.port = None, !.idx = @ + 1,
                       !.ident = parse_identification(resp), !.pc = "probe_open"])
    /\ UNCHANGED <<session, wire, rd, codec>>

ProbeRead(t) ==
    /\ T(t).pc = "probe_read"
    /\ \E resp \in Responses :
         LET keep == IF T(t).op = "connect" THEN IsSome(resp)
                     ELSE IsSome(parse_identification(resp))
         IN IF T(t).op # "connect" /\ ParsePanics(resp)
              THEN /\ hdl' = Dropped(hdl, T(t).port[1])
                   /\ SetT(t, [Returned(T(t), "panic") EXCEPT !.drop = "nobreak"])
              ELSE IF keep
              THEN /\ SetT(t, [T(t) EXCEPT
                                 !.resp = IF T(t).op = "connect" THEN resp ELSE None,
                                 !.ident = IF T(t).op = "connect" THEN None
                                           ELSE parse_identification(resp),
                                 !.initial_baud = Bauds(t)[T(t).idx],
                                 !.pc = IF T(t).op = "connect" THEN "c_parse" ELSE "ack"])
                   /\ UNCHANGED hdl
              ELSE /\ hdl' = Dropped(hdl, T(t).port[1])
                   /\ SetT(t, [T(t) EXCEPT !.port = None, !.idx = @ + 1,
                                 !.pc = "probe_open"])
    /\ UNCHANGED <<session, wire, rd, codec>>

\* connect: parse the identification after the loop; `?` returns on failure
\* and the local port is dropped.
connect_parse(t) ==
    /\ T(t).pc = "c_parse"
    /\ LET parsed == parse_identification(T(t).resp)
       IN IF IsSome(parsed)
            THEN /\ SetT(t, [T(t) EXCEPT !.ident = parsed, !.resp = None, !.pc = "ack"])
                 /\ UNCHANGED hdl
            ELSE /\ hdl' = Dropped(hdl, T(t).port[1])
                 /\ SetT(t, [Returned(T(t), IF ParsePanics(T(t).resp) THEN "panic" ELSE "err")
                               EXCEPT !.drop = "nobreak"])
    /\ UNCHANGED <<session, wire, rd, codec>>

\* Send the mode ACK with the resolved baud char.  A write error returns
\* (`?`); a flush error returns only in connect (`?`), the other commands
\* discard the result of the flush (let _ = port.flush()) and go on.
SendAck(t) ==
    /\ T(t).pc = "ack"
    /\ LET r == resolve_target_baud(T(t).params[1].connection_type,
                                    T(t).params[1].baud_rate,
                                    T(t).ident[1].max_baud_rate,
                                    T(t).ident[1].baud_char)
           h == T(t).port[1]
       IN \E o \in {"ok", "write_err", "flush_err"} :
            /\ CASE o = "ok" \/ (o = "flush_err" /\ T(t).op # "connect") ->
                      /\ Wrote(t, "ack")
                      /\ hdl' = [hdl EXCEPT ![h].ack = ModeChar(T(t).op),
                                            ![h].z = r.baud_char,
                                            ![h].flushed = (o = "ok")]
                      /\ SetT(t, [T(t) EXCEPT !.target_baud = r.target, !.pc = "baud"])
                 [] o = "write_err" ->
                      /\ UNCHANGED wire
                      /\ hdl' = Dropped(hdl, h)
                      /\ SetT(t, [Returned(T(t), "err") EXCEPT
                                    !.fault = "ack_write", !.drop = "nobreak"])
                 [] o = "flush_err" /\ T(t).op = "connect" ->
                      /\ Wrote(t, "ack")
                      /\ hdl' = Dropped(hdl, h)
                      /\ SetT(t, [Returned(T(t), "err") EXCEPT
                                    !.fault = "ack_flush", !.drop = "nobreak"])
    /\ UNCHANGED <<session, rd, codec>>

AfterBaud(op) ==
    CASE op = "connect" -> "c_store"
      [] op = "authenticate" -> "a_p0"
      [] op = "read_load_profile" -> "lp_p0"
      [] OTHER -> "drain"

\* A handshake that leaves the port at the baud of the probe.
SwitchBaudSkipped(t) ==
    /\ T(t).pc = "baud"
    /\ SetT(t, [T(t) EXCEPT !.pc = AfterBaud(T(t).op)])
    /\ UNCHANGED <<session, hdl, wire, rd, codec>>

\* Sleep, then set_baud_rate when the target differs from the initial baud.
SwitchBaud(t) ==
    /\ T(t).pc = "baud"
    /\ LET h == T(t).port[1]
       IN IF T(t).target_baud # T(t).initial_baud
            THEN \E ok \in BOOLEAN :
                   IF ok
                     THEN /\ hdl' = [hdl EXCEPT ![h].baud = T(t).target_baud]
                          /\ SetT(t, [T(t) EXCEPT !.pc = AfterBaud(T(t).op)])
                     ELSE /\ hdl' = Dropped(hdl, h)
                          /\ SetT(t, [Returned(T(t), "err") EXCEPT
                                        !.fault = "set_baud", !.drop = "nobreak"])
            ELSE /\ SetT(t, [T(t) EXCEPT !.pc = AfterBaud(T(t).op)])
                 /\ UNCHANGED hdl
    /\ UNCHANGED <<session, wire, rd, codec>>

(***************************************************************************)
(* connect                                                                 *)
(***************************************************************************)
\* "Store connection state": the port is handed over to the session.
connect_store(t) ==
    /\ T(t).pc = "c_store"
    /\ LockFree(t)
    /\ hdl' = DropStored(hdl)
    /\ port' = T(t).port
    /\ params' = T(t).params
    /\ identity' = Some([baud_rate_char |-> T(t).ident[1].baud_char,
                         serial_number |-> FALSE])
    /\ connected' = TRUE
    /\ negotiated_baud' = T(t).target_baud
    /\ UNCHANGED in_programming_mode
    /\ SetT(t, Returned(T(t), "ok"))
    /\ UNCHANGED <<wire, rd, codec>>

(***************************************************************************)
(* Draining a data block: read_full, read_short, read_obis_batch,          *)
(* read_load_profile                                                       *)
(***************************************************************************)
\* The exit of the read loop: a hard I/O error, the idle timeout with no byte
\* (silent) or with bytes but no ETX (partial), or ETX followed by a byte.
Drain(t) ==
    /\ T(t).pc = "drain"
    /\ LET h == T(t).port[1]
           op == T(t).op
       IN \E o \in {"io_err", "silent", "partial", "etx"}, n \in {0, 1} :
            /\ (o # "io_err" \/ op # "read_obis_batch") => n = 0
            /\ CASE o = "io_err" /\ op # "read_obis_batch" ->
                      \* break, then return Err
                      /\ Wrote(t, "B0")
                      /\ hdl' = Dropped(hdl, h)
                      /\ SetT(t, [Returned(T(t), "err") EXCEPT
                                    !.fault = "read_err", !.drop = "break"])
                 [] o = "io_err" /\ op = "read_obis_batch" ->
                      \* break out of the loop with what was read so far
                      /\ SetT(t, [T(t) EXCEPT !.total_read = n, !.fault = "read_err",
                                    !.pc = "brk"])
                      /\ UNCHANGED <<hdl, wire>>
                 [] o = "silent" /\ op = "read_load_profile" ->
                      /\ Wrote(t, "B0")
                      /\ hdl' = Dropped(hdl, h)
                      /\ SetT(t, [Returned(T(t), "err") EXCEPT
                                    !.fault = "idle_timeout", !.drop = "break"])
                 [] o = "silent" /\ op # "read_load_profile" ->
                      /\ SetT(t, [T(t) EXCEPT !.total_read = 0,
                                    !.fault = "idle_timeout", !.pc = "brk"])
                      /\ UNCHANGED <<hdl, wire>>
                 [] o = "partial" ->
                      /\ SetT(t, [T(t) EXCEPT !.total_read = 1,
                                    !.fault = "idle_timeout", !.pc = "brk"])
                      /\ UNCHANGED <<hdl, wire>>
                 [] o = "etx" ->
                      /\ SetT(t, [T(t) EXCEPT !.total_read = 1, !.found_etx = TRUE,
                                    !.pc = "brk"])
                      /\ UNCHANGED <<hdl, wire>>
    /\ UNCHANGED <<session, rd, codec>>

\* "Send Break command and close port"; read_full and read_short return an
\* error here when nothing was read, and their BCC block panics on the slice
\* data_buf[stx_idx+1..=etx_idx] when the bytes that ended the read loop with
\* found_etx have their first STX behind their first ETX (stx_late; the bytes
\* themselves are in BlockCheck).
SendBreak(t) ==
    /\ T(t).pc = "brk"
    /\ Wrote(t, "B0")
    /\ hdl' = Dropped(hdl, T(t).port[1])
    /\ \E stx_late \in BOOLEAN :
         /\ stx_late => (T(t).op \in {"read_full", "read_short"} /\ T(t).found_etx)
         /\ SetT(t, CASE T(t).op \in {"read_full", "read_short"} /\ T(t).total_read = 0 ->
                          [Returned(T(t), "err") EXCEPT !.drop = "break"]
                       [] stx_late ->
                          [Returned(T(t), "panic") EXCEPT !.drop = "break"]
                       [] OTHER ->
                          [T(t) EXCEPT !.port = None, !.drop = "break", !.pc = "publish"])
    /\ UNCHANGED <<session, rd, codec>>

WithSerial(id) == IF IsSome(id) THEN Some([id[1] EXCEPT !.serial_number = TRUE]) ELSE id
NewIdentity(t) == Some([baud_rate_char |-> T(t).ident[1].baud_char, serial_number |-> TRUE])

\* The last lock region: the session is marked as not connected.
Publish(t) ==
    /\ T(t).pc = "publish"
    /\ LockFree(t)
    /\ hdl' = DropStored(hdl)
    /\ port' = None
    /\ connected' = FALSE
    /\ UNCHANGED <<params, negotiated_baud>>
    /\ CASE T(t).op = "read_full" ->
              /\ identity' = IF ~T(t).reuse THEN NewIdentity(t) ELSE WithSerial(identity)
              /\ UNCHANGED in_programming_mode
              /\ SetT(t, Returned(T(t), "ok"))
         [] T(t).op = "read_short" ->
              /\ identity' = IF identity = None THEN NewIdentity(t) ELSE WithSerial(identity)
              /\ UNCHANGED in_programming_mode
              /\ SetT(t, Returned(T(t), "ok"))
         [] T(t).op = "read_obis_batch" ->
              /\ in_programming_mode' = FALSE
              /\ UNCHANGED identity
              /\ SetT(t, Returned(T(t), IF T(t).total_read = 0 THEN "err" ELSE "ok"))
         [] T(t).op = "read_load_profile" ->
              /\ in_programming_mode' = FALSE
              /\ UNCHANGED identity
              /\ SetT(t, Returned(T(t), "ok"))
    /\ UNCHANGED <<wire, rd, codec>>

(***************************************************************************)
(* authenticate                                                            *)
(***************************************************************************)
\* Read the optional P0 challenge; read errors are ignored.
auth_read_p0(t) ==
    /\ T(t).pc = "a_p0"
    /\ \E p \in {"seed", "none"} : SetT(t, [T(t) EXCEPT !.p0 = p, !.pc = "a_pw"])
    /\ UNCHANGED <<session, hdl, wire, rd, codec>>

\* Send P2 when a seed was received, P1 otherwise; write and flush errors
\* return (`?`).
auth_password(t) ==
    /\ T(t).pc = "a_pw"
    /\ LET h == T(t).port[1]
           frame == IF T(t).p0 = "seed" THEN "P2" ELSE "P1"
       IN \E o \in {"ok", "write_err", "flush_err"} :
            CASE o = "ok" ->
                   /\ Wrote(t, frame)
                   /\ UNCHANGED hdl
                   /\ SetT(t, [T(t) EXCEPT !.pc = "a_reply"])
              [] o = "write_err" ->
                   /\ UNCHANGED wire
                   /\ hdl' = Dropped(hdl, h)
                   /\ SetT(t, [Returned(T(t), "err") EXCEPT
                                 !.fault = "pw_write", !.drop = "nobreak"])
              [] o = "flush_err" ->
                   /\ Wrote(t, frame)
                   /\ hdl' = Dropped(hdl, h)
                   /\ SetT(t, [Returned(T(t), "err") EXCEPT
                                 !.fault = "pw_flush", !.drop = "nobreak"])
    /\ UNCHANGED <<session, rd, codec>>

AuthReplies == {"ACK", "NAK", "SOH_B0", "SOH_other", "other", "empty", "timeout", "io_err"}

\* The error message of each reply arm: "Unexpected response from meter:
\* 0x..", "Empty response from meter", "Timeout waiting for password
\* response", "Read error: ..".
AuthError(r) ==
    CASE r = "other" -> "unexpected_byte"
      [] r = "empty" -> "empty"
      [] r = "timeout" -> "timeout"
      [] r = "io_err" -> "read_error"
      [] OTHER -> "none"

\* The reply to the password decides: ACK stores the port in the session,
\* everything else drops it.
auth_reply(t) ==
    /\ T(t).pc = "a_reply"
    /\ \E r \in AuthReplies :
         IF r = "ACK"
           THEN /\ LockFree(t)
                /\ hdl' = DropStored(hdl)
                /\ port' = T(t).port
                /\ connected' = TRUE
                /\ in_programming_mode' = TRUE
                /\ negotiated_baud' = T(t).target_baud
                /\ UNCHANGED <<params, identity>>
                /\ SetT(t, [Returned(T(t), "ok") EXCEPT !.reply = r])
           ELSE /\ hdl' = Dropped(hdl, T(t).port[1])
                /\ UNCHANGED session
                /\ SetT(t, [Returned(T(t),
                              IF r \in {"NAK", "SOH_B0", "SOH_other"} THEN "false" ELSE "err")
                            EXCEPT !.reply = r,
                                   !.fault = CASE r = "timeout" -> "read_timeout"
                                               [] r = "io_err" -> "read_err"
                                               [] OTHER -> "none",
                                   !.err = AuthError(r),
                                   !.drop = "nobreak"])
    /\ UNCHANGED <<wire, rd, codec>>

(***************************************************************************)
(* read_load_profile                                                       *)
(***************************************************************************)
\* One opportunistic read after the programming-mode ACK; its result only
\* produces log lines.
profile_read_p0(t) ==
    /\ T(t).pc = "lp_p0"
    /\ SetT(t, [T(t) EXCEPT !.pc = "lp_cmd"])
    /\ UNCHANGED <<session, hdl, wire, rd, codec>>

\* Send the R2 P.nn command; a write error returns (`?`).
profile_command(t) ==
    /\ T(t).pc = "lp_cmd"
    /\ \E ok \in BOOLEAN :
         IF ok
           THEN /\ Wrote(t, "LP")
                /\ UNCHANGED hdl
                /\ SetT(t, [T(t) EXCEPT !.pc = "drain"])
           ELSE /\ UNCHANGED wire
                /\ hdl' = Dropped(hdl, T(t).port[1])
                /\ SetT(t, [Returned(T(t), "err") EXCEPT
                              !.fault = "cmd_write", !.drop = "nobreak"])
    /\ UNCHANGED <<session, rd, codec>>

(***************************************************************************)
(* Commands that run under the session lock from start to end              *)
(***************************************************************************)
\* disconnect that releases the port but keeps params and identity.
disconnect_port_only(t) ==
    /\ T(t).pc = "disconnect"
    /\ LockFree(t)
    /\ BreakStored(t)
    /\ hdl' = DropStored(hdl)
    /\ port' = None
    /\ connected' = FALSE
    /\ in_programming_mode' = FALSE
    /\ UNCHANGED <<params, identity, negotiated_baud>>
    /\ SetT(t, [Returned(T(t), "ok") EXCEPT !.sent = IsSome(port)])
    /\ UNCHANGED <<rd, codec>>

disconnect(t) ==
    /\ T(t).pc = "disconnect"
    /\ LockFree(t)
    /\ BreakStored(t)
    /\ hdl' = DropStored(hdl)
    /\ ManagerDisconnect
    /\ SetT(t, [Returned(T(t), "ok") EXCEPT !.sent = IsSome(port)])
    /\ UNCHANGED <<rd, codec>>

\* end_session without the not-connected check.
end_session_unguarded(t) ==
    /\ T(t).pc = "end_session"
    /\ LockFree(t)
    /\ BreakStored(t)
    /\ hdl' = DropStored(hdl)
    /\ port' = None
    /\ connected' = FALSE
    /\ in_programming_mode' = FALSE
    /\ UNCHANGED <<params, identity, negotiated_baud>>
    /\ SetT(t, [Returned(T(t), "ok") EXCEPT !.sent = IsSome(port)])
    /\ UNCHANGED <<rd, codec>>

\* end_session that leaves the programming-mode flag as it was.
end_session_keeps_mode(t) ==
    /\ T(t).pc = "end_session"
    /\ LockFree(t)
    /\ IF ~connected
         THEN /\ SetT(t, Returned(T(t), "err"))
              /\ UNCHANGED <<session, hdl, wire>>
         ELSE /\ BreakStored(t)
              /\ hdl' = DropStored(hdl)
              /\ port' = None
              /\ connected' = FALSE
              /\ UNCHANGED <<params, identity, negotiated_baud, in_programming_mode>>
              /\ SetT(t, [Returned(T(t), "ok") EXCEPT !.sent = IsSome(port)])
    /\ UNCHANGED <<rd, codec>>

end_session(t) ==
    /\ T(t).pc = "end_session"
    /\ LockFree(t)
    /\ IF ~connected
         THEN /\ SetT(t, Returned(T(t), "err"))
              /\ UNCHANGED <<session, hdl, wire>>
         ELSE /\ BreakStored(t)
              /\ hdl' = DropStored(hdl)
              /\ port' = None
              /\ connected' = FALSE
              /\ in_programming_mode' = FALSE
              /\ UNCHANGED <<params, identity, negotiated_baud>>
              /\ SetT(t, [Returned(T(t), "ok") EXCEPT !.sent = IsSome(port)])
    /\ UNCHANGED <<rd, codec>>

\* read_obis up to the reply: the check, the R2 frame and its flush.  The
\* mutex guard lives until the command returns.
read_obis(t) ==
    /\ T(t).pc = "read_obis"
    /\ LockFree(t)
    /\ IF ~connected \/ port = None
         THEN /\ SetT(t, Returned(T(t), "err"))
              /\ UNCHANGED wire
         ELSE \E o \in {"write_err", "flush_err", "sent"} :
                /\ IF o = "write_err" THEN UNCHANGED wire ELSE Wrote(t, "R2")
                /\ SetT(t, IF o = "sent"
                             THEN [T(t) EXCEPT !.pc = "ro_reply", !.sent = TRUE,
                                               !.holds = TRUE]
                             ELSE [Returned(T(t), "err") EXCEPT
                                     !.sent = (o # "write_err"), !.reply = o])
    /\ UNCHANGED <<session, hdl, rd, codec>>

\* read_obis: the sleep and the read of the reply, still under the mutex.
read_obis_reply(t) ==
    /\ T(t).pc = "ro_reply"
    /\ \E o \in {"read_err", "empty", "data"} :
         SetT(t, [Returned(T(t), IF o = "data" THEN "ok" ELSE "err")
                  EXCEPT !.reply = o])
    /\ UNCHANGED <<session, hdl, wire, rd, codec>>

\* The frames sync_time writes, in the order of its three write_obis calls.
SyncFrames == <<"W2 0.9.1", "W2 0.9.2", "W2 0.9.5">>
\* build_write_command: the frame of the running write_obis call.
W2Frame(t) == IF T(t).pc = "st_write" THEN SyncFrames[T(t).idx] ELSE "W2"

\* write_obis without the programming-mode guard.
WriteObisAnyMode(t, wait, onerr) ==
    /\ LockFree(t)
    /\ IF ~connected \/ port = None
         THEN /\ SetT(t, onerr)
              /\ UNCHANGED wire
         ELSE \E o \in {"write_err", "flush_err", "sent"} :
                /\ IF o = "write_err" THEN UNCHANGED wire ELSE Wrote(t, W2Frame(t))
                /\ SetT(t, IF o = "sent"
                             THEN [T(t) EXCEPT !.pc = wait, !.sent = TRUE, !.holds = TRUE]
                             ELSE [onerr EXCEPT !.sent = (o # "write_err"), !.reply = o])
    /\ UNCHANGED <<session, hdl, rd, codec>>

\* The body of write_obis up to the reply: the guards, the W2 frame and its
\* flush.  The caller goes on at `wait` with the mutex held, or returns as
\* `onerr`.
WriteObis(t, wait, onerr) ==
    /\ LockFree(t)
    /\ IF ~connected \/ ~in_programming_mode \/ port = None
         THEN /\ SetT(t, onerr)
              /\ UNCHANGED wire
         ELSE \E o \in {"write_err", "flush_err", "sent"} :
                /\ IF o = "write_err" THEN UNCHANGED wire ELSE Wrote(t, W2Frame(t))
                /\ SetT(t, IF o = "sent"
                             THEN [T(t) EXCEPT !.pc = wait, !.sent = TRUE, !.holds = TRUE]
                             ELSE [onerr EXCEPT !.sent = (o # "write_err"), !.reply = o])
    /\ UNCHANGED <<session, hdl, rd, codec>>

\* The rest of the body: the sleep and the one-byte reply, still under the
\* mutex.  The caller continues as `onok` after ACK and as `onerr` otherwise.
WriteObisReply(t, onok, onerr) ==
    /\ \E o \in {"ACK", "NAK", "other"} :
         SetT(t, [(IF o = "ACK" THEN onok ELSE onerr) EXCEPT !.reply = o])
    /\ UNCHANGED <<session, hdl, wire, rd, codec>>

write_obis(t) ==
    /\ T(t).pc = "write_obis"
    /\ WriteObis(t, "wo_reply", Returned(T(t), "err"))

write_obis_reply(t) ==
    /\ T(t).pc = "wo_reply"
    /\ WriteObisReply(t, Returned(T(t), "ok"), Returned(T(t), "err"))

\* sync_time: the check under the lock, then three write_obis calls.
sync_time_check(t) ==
    /\ T(t).pc = "st_check"
    /\ LockFree(t)
    /\ SetT(t, IF ~connected \/ ~in_programming_mode
                 THEN Returned(T(t), "err")
                 ELSE [T(t) EXCEPT !.pc = "st_write", !.idx = 1])
    /\ UNCHANGED <<session, hdl, wire, rd, codec>>

sync_time_write(t) ==
    /\ T(t).pc = "st_write"
    /\ WriteObis(t, "st_reply", Returned(T(t), "err"))

\* sync_time that goes on to the next write whatever the reply was.
sync_time_reply_all(t) ==
    /\ T(t).pc = "st_reply"
    /\ WriteObisReply(t, IF T(t).idx < 3
                           THEN [T(t) EXCEPT !.pc = "st_write", !.idx = @ + 1,
                                             !.holds = FALSE]
                           ELSE Returned(T(t), "ok"),
                         IF T(t).idx < 3
                           THEN [T(t) EXCEPT !.pc = "st_write", !.idx = @ + 1,
                                             !.holds = FALSE]
                           ELSE Returned(T(t), "err"))

\* The reply to one write of sync_time: `?` returns the failure, ACK goes on
\* to the next write or to Ok(()).
sync_time_reply(t) ==
    /\ T(t).pc = "st_reply"
    /\ WriteObisReply(t, IF T(t).idx < 3
                           THEN [T(t) EXCEPT !.pc = "st_write", !.idx = @ + 1,
                                             !.holds = FALSE]
                           ELSE Returned(T(t), "ok"),
                         Returned(T(t), "err"))

\* get_connection_status: Ok(manager.connected).
get_connection_status(t) ==
    /\ T(t).pc = "get_connection_status"
    /\ LockFree(t)
    /\ SetT(t, [Returned(T(t), "ok") EXCEPT
                  !.reply = IF connected THEN "true" ELSE "false"])
    /\ UNCHANGED <<session, hdl, wire, rd, codec>>

(***************************************************************************)
(* Specifications                                                          *)
(***************************************************************************)
Step(t) ==
    \/ Invoke(t)
    \/ Validate(t)
    \/ GetParams(t)
    \/ CloseExisting(t)
    \/ connect_clear(t)
    \/ read_full_take(t)
    \/ ProbeOpen(t)
    \/ ProbeRequest(t)
    \/ ProbeRead(t)
    \/ connect_parse(t)
    \/ SendAck(t)
    \/ SwitchBaud(t)
    \/ connect_store(t)
    \/ Drain(t)
    \/ SendBreak(t)
    \/ Publish(t)
    \/ auth_read_p0(t)
    \/ auth_password(t)
    \/ auth_reply(t)
    \/ profile_read_p0(t)
    \/ profile_command(t)
    \/ disconnect(t)
    \/ end_session(t)
    \/ read_obis(t)
    \/ read_obis_reply(t)
    \/ write_obis(t)
    \/ write_obis_reply(t)
    \/ sync_time_check(t)
    \/ sync_time_write(t)
    \/ sync_time_reply(t)
    \/ get_connection_status(t)

\* One caller: the commands run one after the other.
Next == Step(Main)
Spec == Init /\ [][Next]_vars

\* Two callers: the commands of one interleave with the commands of the other
\* at every lock release and serial I/O call.
NextConc == \E t \in Concurrent : Step(t)
SpecConc == Init /\ [][NextConc]_vars

(***************************************************************************)
(* io::read_until_etx, byte by byte                                        *)
(***************************************************************************)
BufferSize == 4
IdleTicks == 2
Bytes == {"ETX", "STX", "d"}

RECURSIVE SeqsUpTo(_)
\* The non-empty byte strings of length up to n: what one port.read returns.
SeqsUpTo(n) ==
    IF n = 0 THEN {}
    ELSE LET shorter == SeqsUpTo(n - 1)
         IN {<<b>> : b \in Bytes} \cup shorter
              \cup {Append(c, b) : c \in shorter, b \in Bytes}

\* The ETX scan: for i in 0..total_read-1, data_buf[i] == ETX && i+1 < total_read.
\* A scan that is satisfied by an ETX alone.
EtxAlone(buf) == \E i \in 1 .. Len(buf) : buf[i] = "ETX"

EtxScan(buf) ==
    Len(buf) >= 2 /\ \E i \in 0 .. (Len(buf) - 2) : buf[i + 1] = "ETX" /\ i + 1 < Len(buf)

\* rd.buf is data_buf[..total_read]; rd.idle counts the read intervals slept
\* since last_read_time; rd.prev is total_read before the latest read.  Two
\* fields record what the port did: rd.delivered is every byte it returned, in
\* order, and rd.since counts the read intervals since it last returned a byte.
ReadStart ==
    /\ rd.pc = "off"
    /\ rd' = [pc |-> "loop", buf |-> <<>>, found_etx |-> FALSE, idle |-> 0, prev |-> 0,
              out |-> "none", delivered |-> <<>>, since |-> 0]
    /\ UNCHANGED <<session, hdl, wire, th, codec>>

\* A read that leaves last_read_time as it was.
ReadSomeKeepsClock ==
    /\ rd.pc = "loop"
    /\ \E chunk \in SeqsUpTo(BufferSize - Len(rd.buf)) :
         LET buf == rd.buf \o chunk
             found == EtxScan(buf)
         IN rd' = [rd EXCEPT !.buf = buf, !.prev = Len(rd.buf),
                             !.delivered = @ \o chunk, !.since = 0,
                             !.found_etx = found,
                             !.pc = IF found \/ Len(buf) >= BufferSize
                                    THEN "done" ELSE "loop"]
    /\ UNCHANGED <<session, hdl, wire, th, codec>>

\* Ok(n) if n > 0
ReadSome ==
    /\ rd.pc = "loop"
    /\ \E chunk \in SeqsUpTo(BufferSize - Len(rd.buf)) :
         LET buf == rd.buf \o chunk
             found == EtxScan(buf)
         IN rd' = [rd EXCEPT !.buf = buf, !.prev = Len(rd.buf), !.idle = 0,
                             !.delivered = @ \o chunk, !.since = 0,
                             !.found_etx = found,
                             !.pc = IF found \/ Len(buf) >= BufferSize
                                    THEN "done" ELSE "loop"]
    /\ UNCHANGED <<session, hdl, wire, th, codec>>

\* A loop without the idle check: it sleeps and reads again.
ReadNothingKeepsWaiting ==
    /\ rd.pc = "loop"
    /\ rd' = [rd EXCEPT !.idle = IF @ > IdleTicks THEN @ ELSE @ + 1,
                        !.since = IF @ > IdleTicks THEN @ ELSE @ + 1]
    /\ UNCHANGED <<session, hdl, wire, th, codec>>

\* Ok(0) or Err(TimedOut): sleep one read interval, then the idle check.
ReadNothing ==
    /\ rd.pc = "loop"
    /\ rd' = [rd EXCEPT !.idle = @ + 1, !.since = @ + 1,
                        !.pc = IF rd.idle + 1 > IdleTicks THEN "done" ELSE "loop"]
    /\ UNCHANGED <<session, hdl, wire, th, codec>>

\* Err(e) of any other kind: return Err.
ReadFailed ==
    /\ rd.pc = "loop"
    /\ rd' = [rd EXCEPT !.pc = "failed"]
    /\ UNCHANGED <<session, hdl, wire, th, codec>>

\* The u8 of a character: the control characters and the ASCII characters the
\* frames and bodies here are made of.
ByteVal(b) ==
    CASE b = "SOH" -> 1 [] b = "STX" -> 2 [] b = "ETX" -> 3
      [] b = "LF" -> 10 [] b = "CR" -> 13 [] b = "SP" -> 32
      [] b = "(" -> 40 [] b = ")" -> 41 [] b = "*" -> 42 [] b = "." -> 46
      [] b = "0" -> 48 [] b = "1" -> 49 [] b = "2" -> 50 [] b = "3" -> 51
      [] b = "4" -> 52 [] b = "5" -> 53 [] b = "6" -> 54 [] b = "7" -> 55
      [] b = "8" -> 56 [] b = "9" -> 57 [] b = ";" -> 59
      [] b = "B" -> 66 [] b = "P" -> 80 [] b = "R" -> 82 [] b = "W" -> 87
      [] b = "d" -> 100

\* str::as_bytes
AsBytes(s) == [i \in 1 .. Len(s) |-> ByteVal(s[i])]

RECURSIVE Xor(_, _)
\* a ^ b
Xor(a, b) ==
    IF a = 0 THEN b
    ELSE IF b = 0 THEN a
    ELSE (2 * Xor(a \div 2, b \div 2)) + ((a + b) % 2)

RECURSIVE calculate_bcc(_)
\* data.iter().fold(0u8, |acc, &b| acc ^ b)
calculate_bcc(data) ==
    IF data = <<>> THEN 0
    ELSE Xor(calculate_bcc(SubSeq(data, 1, Len(data) - 1)), data[Len(data)])

\* iter().position(|&b| b == x): the first index of x (counted from 1), or None.
Position(buf, x) ==
    IF \E i \in 1 .. Len(buf) : buf[i] = x
    THEN Some(CHOOSE i \in 1 .. Len(buf) : buf[i] = x /\ \A j \in 1 .. (i - 1) : buf[j] # x)
    ELSE None

\* "Validate received data" and "Verify BCC if we found ETX" of read_full and
\* read_short on the bytes the read loop left: no byte is an error; the BCC is
\* compared when ETX has a byte after it and an STX exists; the slice
\* data_buf[stx_idx+1..=etx_idx] panics when the first STX is behind the first
\* ETX.
BlockCheck(buf, found) ==
    LET etx == Position(buf, "ETX")
        stx == Position(buf, "STX")
    IN CASE Len(buf) = 0 -> "no_data"
         [] Len(buf) > 0 /\ ~found -> "unverified"
         [] OTHER ->
              IF IsSome(etx) /\ etx[1] < Len(buf) /\ IsSome(stx)
              THEN IF stx[1] > etx[1] THEN "panic"
                   ELSE IF calculate_bcc(AsBytes(SubSeq(buf, stx[1] + 1, etx[1])))
                             = ByteVal(buf[etx[1] + 1])
                        THEN "bcc_ok" ELSE "bcc_mismatch"
              ELSE "unverified"

\* What read_full and read_short do with the bytes after the read loop.
VerifyBlock ==
    /\ rd.pc = "done"
    /\ rd.out = "none"
    /\ rd' = [rd EXCEPT !.out = BlockCheck(rd.buf, rd.found_etx)]
    /\ UNCHANGED <<session, hdl, wire, th, codec>>

NextRead == ReadStart \/ ReadSome \/ ReadNothing \/ ReadFailed \/ VerifyBlock
SpecRead == Init /\ [][NextRead]_vars

(***************************************************************************)
(* The drain of read_load_profile, chunk by chunk                          *)
(***************************************************************************)
ChunkSize == 2
MaxProfileLen == 4
ProfileIdleTicks == 2

\* data_buf.len() after n more bytes.  The Vec grows with every chunk and the
\* code puts no limit on it; the count stops at MaxProfileLen, which stands
\* for every greater length.
Grown(len, n) == IF len + n > MaxProfileLen THEN MaxProfileLen ELSE len + n

\* "Check for ETX in newly received bytes": any ETX of the chunk.
ChunkHasEtx(chunk) == \E i \in 1 .. Len(chunk) : chunk[i] = "ETX"

\* Vec::with_capacity(1048576), chunk_buf, found_etx, last_read_time.
profile_drain_start ==
    /\ rd.pc = "off"
    /\ rd' = [pc |-> "lp_loop", len |-> 0, chunk |-> <<>>, found_etx |-> FALSE, idle |-> 0]
    /\ UNCHANGED <<session, hdl, wire, th, codec>>

\* Ok(n) if n > 0: extend data_buf, restart the idle clock, look for ETX.
profile_chunk ==
    /\ rd.pc = "lp_loop"
    /\ \E chunk \in SeqsUpTo(ChunkSize) :
         rd' = [rd EXCEPT !.len = Grown(rd.len, Len(chunk)), !.chunk = chunk, !.idle = 0,
                          !.found_etx = ChunkHasEtx(chunk),
                          !.pc = IF ChunkHasEtx(chunk) THEN "lp_done" ELSE "lp_loop"]
    /\ UNCHANGED <<session, hdl, wire, th, codec>>

\* Ok(0) or Err(TimedOut): sleep, then the sliding idle timeout; with no data
\* at all it returns Err, with data it breaks out of the loop.
profile_nothing ==
    /\ rd.pc = "lp_loop"
    /\ rd' = [rd EXCEPT !.idle = @ + 1,
                        !.pc = IF rd.idle + 1 > ProfileIdleTicks
                               THEN (IF rd.len = 0 THEN "lp_failed" ELSE "lp_done")
                               ELSE "lp_loop"]
    /\ UNCHANGED <<session, hdl, wire, th, codec>>

\* Err(e) of any other kind: break, return Err.
profile_failed ==
    /\ rd.pc = "lp_loop"
    /\ rd' = [rd EXCEPT !.pc = "lp_failed"]
    /\ UNCHANGED <<session, hdl, wire, th, codec>>

NextProfile == profile_drain_start \/ profile_chunk \/ profile_nothing \/ profile_failed

\* The loop has no await: once entered, it keeps taking steps.
SpecProfile == Init /\ [][NextProfile]_vars /\ WF_vars(NextProfile)

(***************************************************************************)
(* Text: a string is a sequence of characters                              *)
(***************************************************************************)
TextsUpTo(chars, n) == UNION {[1 .. k -> chars] : k \in 0 .. n}

\* str::find / str::rfind of a character: the first / last index (from 1), 0
\* for None.
Find(s, c) ==
    IF \E i \in 1 .. Len(s) : s[i] = c
    THEN CHOOSE i \in 1 .. Len(s) : s[i] = c /\ \A j \in 1 .. (i - 1) : s[j] # c
    ELSE 0

RFind(s, c) ==
    IF \E i \in 1 .. Len(s) : s[i] = c
    THEN CHOOSE i \in 1 .. Len(s) : s[i] = c /\ \A j \in (i + 1) .. Len(s) : s[j] # c
    ELSE 0

\* char::is_whitespace on the characters used here; STX and ETX are not.
IsSpace(c) == c \in {"SP", "CR", "LF"}

RECURSIVE TrimStart(_)
TrimStart(s) == IF s # <<>> /\ IsSpace(s[1]) THEN TrimStart(Tail(s)) ELSE s

RECURSIVE TrimEnd(_)
TrimEnd(s) ==
    IF s # <<>> /\ IsSpace(s[Len(s)]) THEN TrimEnd(SubSeq(s, 1, Len(s) - 1)) ELSE s

\* str::trim
Trim(s) == TrimStart(TrimEnd(s))

\* str::starts_with
StartsWith(s, prefix) ==
    Len(prefix) <= Len(s) /\ SubSeq(s, 1, Len(prefix)) = prefix

RECURSIVE Lines(_)
\* str::lines: split at LF, a CR before the LF is dropped, no empty last line.
Lines(s) ==
    IF s = <<>> THEN <<>>
    ELSE LET i == Find(s, "LF")
             first == IF i = 0 THEN s ELSE SubSeq(s, 1, i - 1)
             line == IF first # <<>> /\ first[Len(first)] = "CR" /\ i # 0
                     THEN SubSeq(first, 1, Len(first) - 1) ELSE first
         IN <<line>> \o (IF i = 0 THEN <<>> ELSE Lines(SubSeq(s, i + 1, Len(s))))

(***************************************************************************)
(* iec62056: parse_obis_response, parse_data_block                         *)
(***************************************************************************)
\* Some([code, value, unit]) or None.
parse_obis_response(line) ==
    LET open_paren == Find(line, "(")
        close_paren == RFind(line, ")")
    IN IF open_paren = 0 \/ close_paren = 0 \/ open_paren >= close_paren THEN None
       ELSE LET value_part == SubSeq(line, open_paren + 1, close_paren - 1)
                star_pos == Find(value_part, "*")
            IN Some([code |-> Trim(SubSeq(line, 1, open_paren - 1)),
                     value |-> IF star_pos = 0 THEN value_part
                               ELSE SubSeq(value_part, 1, star_pos - 1),
                     unit |-> IF star_pos = 0 THEN None
                              ELSE Some(SubSeq(value_part, star_pos + 1, Len(value_part)))])

RECURSIVE FilterMapParse(_)
FilterMapParse(lines) ==
    IF lines = <<>> THEN <<>>
    ELSE parse_obis_response(Trim(Head(lines))) \o FilterMapParse(Tail(lines))

\* data.lines().filter_map(|line| parse_obis_response(line.trim())).collect()
parse_data_block(data) == FilterMapParse(Lines(data))

(***************************************************************************)
(* read_obis_batch: the value of one requested code                        *)
(***************************************************************************)
\* items.iter().find(|item| item.code == trimmed ||
\*                          item.code.starts_with(&format!("{}*", trimmed)))
\* and the value, with *unit when there is one; the empty string when no
\* item is found.
BatchValueOf(items, code) ==
    LET trimmed == Trim(code)
        hit(i) == items[i].code = trimmed \/ StartsWith(items[i].code, trimmed \o <<"*">>)
    IN IF \E i \in 1 .. Len(items) : hit(i)
       THEN LET i == CHOOSE k \in 1 .. Len(items) : hit(k) /\ \A j \in 1 .. (k - 1) : ~hit(j)
            IN IF IsSome(items[i].unit)
               THEN items[i].value \o <<"*">> \o items[i].unit[1]
               ELSE items[i].value
       ELSE <<>>

\* "Parse the data block and extract requested OBIS codes": the items are
\* parsed from all of data_buf[..total_read].
BatchValue(raw, code) == BatchValueOf(parse_data_block(raw), code)

BlockChars == {"1", "(", ")", "*", "LF", "SP"}
MaxBody == 5
RequestedCodes == {<<"1">>, <<"1", "1">>}

\* The received block: STX, the lines, ETX.
DataBlocks == {<<"STX">> \o body \o <<"ETX">> : body \in TextsUpTo(BlockChars, MaxBody)}

batch_lookup ==
    /\ codec.fn = "none"
    /\ \E raw \in DataBlocks, code \in RequestedCodes :
         codec' = [fn |-> "read_obis_batch", raw |-> raw, code |-> code,
                   out |-> BatchValue(raw, code)]
    /\ UNCHANGED <<session, hdl, wire, th, rd>>


(***************************************************************************)
(* iec62056: the command frames                                            *)
(***************************************************************************)
\* msg.push(bcc) after calculate_bcc(&msg[3..]): the bytes from index 3 on,
\* counted from 0.
WithBcc(msg) == Append(msg, calculate_bcc(SubSeq(msg, 4, Len(msg))))

build_password_command(password) ==
    WithBcc(AsBytes(<<"SOH", "P", "1", "STX", "(">> \o password \o <<")", "ETX">>))

\* A frame whose BCC starts right after SOH.
build_read_command_bcc_after_soh(obis) ==
    LET msg == AsBytes(<<"SOH", "R", "2", "STX">> \o obis \o <<"(", ")", "ETX">>)
    IN Append(msg, calculate_bcc(SubSeq(msg, 2, Len(msg))))

build_read_command(obis) ==
    WithBcc(AsBytes(<<"SOH", "R", "2", "STX">> \o obis \o <<"(", ")", "ETX">>))

build_write_command(obis, value) ==
    WithBcc(AsBytes(<<"SOH", "W", "2", "STX">> \o obis \o <<"(">> \o value \o <<")", "ETX">>))

build_break_command == WithBcc(AsBytes(<<"SOH", "B", "0", "ETX">>))

Digits == <<"0", "1", "2", "3", "4", "5", "6", "7", "8", "9">>

\* format!("P.{:02}", profile_number), for a number below 100
ProfileStr(n) == <<"P", ".", Digits[(n \div 10) + 1], Digits[(n % 10) + 1]>>

\* The range when one is given and not empty, ';' otherwise.
build_load_profile_command(profile_number, date_range) ==
    WithBcc(AsBytes(<<"SOH", "R", "2", "STX">> \o ProfileStr(profile_number) \o <<"(">>
                      \o (IF IsSome(date_range) /\ date_range[1] # <<>>
                          THEN date_range[1] ELSE <<";">>)
                      \o <<")", "ETX">>))

ObisChars == {"1", ".", "(", ")", "SP", "*"}
MaxObis == 3
DigitChars == {"0", "1"}
MaxPassword == 2
ProfileNumbers == {1, 12}
DateRanges == {None, Some(<<>>), Some(<<"1">>), Some(<<"1", ";", "2">>)}

codec_password ==
    /\ codec.fn = "none"
    /\ \E password \in TextsUpTo(DigitChars, MaxPassword) :
         codec' = [fn |-> "build_password_command", arg |-> password,
                   out |-> build_password_command(password)]
    /\ UNCHANGED <<session, hdl, wire, th, rd>>

codec_read ==
    /\ codec.fn = "none"
    /\ \E obis \in TextsUpTo(ObisChars, MaxObis) :
         codec' = [fn |-> "build_read_command", arg |-> obis,
                   out |-> build_read_command(obis)]
    /\ UNCHANGED <<session, hdl, wire, th, rd>>

codec_write ==
    /\ codec.fn = "none"
    /\ \E obis \in TextsUpTo(ObisChars, 1), value \in TextsUpTo(DigitChars, 1) :
         codec' = [fn |-> "build_write_command", arg |-> <<obis, value>>,
                   out |-> build_write_command(obis, value)]
    /\ UNCHANGED <<session, hdl, wire, th, rd>>

codec_load_profile ==
    /\ codec.fn = "none"
    /\ \E n \in ProfileNumbers, range \in DateRanges :
         codec' = [fn |-> "build_load_profile_command", arg |-> <<n, range>>,
                   out |-> build_load_profile_command(n, range)]
    /\ UNCHANGED <<session, hdl, wire, th, rd>>

codec_break ==
    /\ codec.fn = "none"
    /\ codec' = [fn |-> "build_break_command", arg |-> <<>>, out |-> build_break_command]
    /\ UNCHANGED <<session, hdl, wire, th, rd>>

(***************************************************************************)
(* iec62056: parse_identification on the characters of a line              *)
(***************************************************************************)
\* The UTF-8 length of a character; "U+FFFD" is the replacement character
\* that from_utf8_lossy puts in place of an invalid byte.
ByteWidth(c) == IF c = "U+FFFD" THEN 3 ELSE 1

RECURSIVE ByteLen(_)
\* str::len
ByteLen(s) == IF s = <<>> THEN 0 ELSE ByteWidth(Head(s)) + ByteLen(Tail(s))

\* str::is_char_boundary
IsCharBoundary(s, k) == \E i \in 0 .. Len(s) : ByteLen(SubSeq(s, 1, i)) = k

\* The characters of s[..k], for a boundary k.
Prefix(s, k) == SubSeq(s, 1, CHOOSE i \in 0 .. Len(s) : ByteLen(SubSeq(s, 1, i)) = k)

RECURSIVE TrimStartMatches(_, _)
\* str::trim_start_matches(c)
TrimStartMatches(s, c) == IF s # <<>> /\ s[1] = c THEN TrimStartMatches(Tail(s), c) ELSE s

NoIdent == [res |-> "None", ident |-> <<>>]
IdentPanic == [res |-> "panic", ident |-> <<>>]

\* The result of parse_identification: None, Some(MeterIdent), or a panic of
\* one of its slices: content[..3] when byte 3 is inside a character,
\* content[gen_start + 1..gen_end] when '>' is before '<', and
\* after_gen[model_start + 1..model_end] when ')' is before '('.
parse_identification_line(response) ==
    IF response = <<>> \/ response[1] # "/" THEN NoIdent
    ELSE
    LET content == Trim(TrimStartMatches(response, "/"))
        gen_start == Find(content, "<")
        gen_end == Find(content, ">")
        after_gen == SubSeq(content, gen_end + 1, Len(content))
        model_start == Find(after_gen, "(")
        model_end == Find(after_gen, ")")
    IN IF ByteLen(content) < 4 THEN NoIdent
       ELSE IF ~IsCharBoundary(content, 3) THEN IdentPanic
       ELSE IF Len(content) < 4 THEN NoIdent
       ELSE IF baud_rate_from_char(content[4]) = None THEN NoIdent
       ELSE IF gen_start = 0 \/ gen_end = 0 THEN NoIdent
       ELSE IF gen_start > gen_end THEN IdentPanic
       ELSE IF model_start = 0 THEN NoIdent
       ELSE IF model_end = 0 THEN NoIdent
       ELSE IF model_start > model_end THEN IdentPanic
       ELSE [res |-> "Some",
             ident |-> <<[manufacturer |-> Prefix(content, 3),
                          baud_char |-> content[4],
                          generation |-> SubSeq(content, gen_start + 1, gen_end - 1),
                          edas_id |-> SubSeq(after_gen, 1, model_start - 1),
                          model |-> SubSeq(after_gen, model_start + 1, model_end - 1),
                          max_baud_rate |-> baud_rate_from_char(content[4])[1]]>>]

\* The lines given to parse_identification: with and without the leading
\* '/', a head of manufacturer and baud character (well formed, with a
\* character outside the baud map, with a replacement character, too short),
\* and a tail of markers and field characters; and the line of
\* test_parse_identification.
MarkChars == {"<", ">", "(", ")", "2"}
MaxTail == 5
IdentHeads == {<<"M", "K", "S", "5">>, <<"M", "K", "S", "7">>,
               <<"M", "K", "U+FFFD", "5">>, <<"M", "K">>}
TestLine == <<"/", "M", "K", "S", "5", "<", "2", ">", "A", "D", "M", "(",
              "M", "5", "5", "0", ".", "2", "2", "5", "1", ")", "CR", "LF">>
IdentLines ==
    {prefix \o head \o tail :
        prefix \in {<<>>, <<"/">>}, head \in IdentHeads,
        tail \in TextsUpTo(MarkChars, MaxTail)} \cup {TestLine}

codec_parse_identification ==
    /\ codec.fn = "none"
    /\ \E response \in IdentLines :
         codec' = [fn |-> "parse_identification", arg |-> response,
                   out |-> parse_identification_line(response)]
    /\ UNCHANGED <<session, hdl, wire, th, rd>>

(***************************************************************************)
(* io::verify_bcc                                                          *)
(***************************************************************************)
\* The first index of a byte value (from 1), 0 when there is none.
PositionOf(data, v) ==
    IF \E i \in 1 .. Len(data) : data[i] = v
    THEN CHOOSE i \in 1 .. Len(data) : data[i] = v /\ \A j \in 1 .. (i - 1) : data[j] # v
    ELSE 0

\* Err when STX, ETX or the byte after ETX is missing; the slice
\* data[stx_idx + 1..=etx_idx] panics when the first STX is behind the first
\* ETX; otherwise Ok(calculated == received), calculated over the bytes after
\* STX through ETX.
verify_bcc(data) ==
    LET stx_idx == PositionOf(data, ByteVal("STX"))
        etx_idx == PositionOf(data, ByteVal("ETX"))
    IN CASE stx_idx = 0 -> "Err(no STX)"
         [] stx_idx # 0 /\ etx_idx = 0 -> "Err(no ETX)"
         [] stx_idx # 0 /\ etx_idx # 0 /\ etx_idx + 1 > Len(data) -> "Err(no BCC)"
         [] OTHER ->
              IF stx_idx > etx_idx THEN "panic"
              ELSE IF calculate_bcc(SubSeq(data, stx_idx + 1, etx_idx)) = data[etx_idx + 1]
                   THEN "Ok(true)" ELSE "Ok(false)"

\* What verify_bcc is given: frames of the builders, and received bytes.
ReceivedChars == {"STX", "ETX", "1"}
MaxReceived == 4
VerifyInputs ==
    {build_read_command(obis) : obis \in TextsUpTo(ObisChars, 1)}
      \cup {build_password_command(password) : password \in TextsUpTo(DigitChars, 1)}
      \cup {AsBytes(t) : t \in TextsUpTo(ReceivedChars, MaxReceived)}

codec_verify ==
    /\ codec.fn = "none"
    /\ \E data \in VerifyInputs :
         codec' = [fn |-> "verify_bcc", arg |-> data, out |-> verify_bcc(data)]
    /\ UNCHANGED <<session, hdl, wire, th, rd>>

(***************************************************************************)
(* parse_obis_response on the body of a read command                       *)
(***************************************************************************)
\* The characters ByteVal knows, and String::from_utf8 on their bytes.
ByteChars ==
    {"SOH", "STX", "ETX", "LF", "CR", "SP", "(", ")", "*", ".", "0", "1", "2", "3",
     "4", "5", "6", "7", "8", "9", ";", "B", "P", "R", "W", "d"}

CharOf(v) == CHOOSE c \in ByteChars : ByteVal(c) = v

FromBytes(data) == [i \in 1 .. Len(data) |-> CharOf(data[i])]

\* extract_data_block: the bytes strictly between the first STX and the
\* first ETX, None when STX is not before ETX.
extract_data_block(data) ==
    LET stx_idx == PositionOf(data, ByteVal("STX"))
        etx_idx == PositionOf(data, ByteVal("ETX"))
    IN IF stx_idx # 0 /\ etx_idx # 0 /\ stx_idx < etx_idx
       THEN Some(SubSeq(data, stx_idx + 1, etx_idx - 1))
       ELSE None

codec_parse_obis ==
    /\ codec.fn = "none"
    /\ \E obis \in TextsUpTo(ObisChars, MaxObis) :
         LET line == FromBytes(extract_data_block(build_read_command(obis))[1])
         IN codec' = [fn |-> "parse_obis_response", obis |-> obis, arg |-> line,
                      out |-> parse_obis_response(line)]
    /\ UNCHANGED <<session, hdl, wire, th, rd>>

(***************************************************************************)
(* read_load_profile: one line of the received profile                     *)
(***************************************************************************)
\* char::is_ascii_control on the characters used here
IsAsciiControl(c) == c \in {"SOH", "STX", "ETX", "CR", "LF"}
NotControl(c) == ~IsAsciiControl(c)

\* char::is_ascii_hexdigit on the characters used here
IsHexDigit(c) == c \in {"0", "1", "2", "3", "4", "5", "6", "7", "8", "9", "A", "F"}

RECURSIVE Split(_, _)
\* str::split(c)
Split(s, c) ==
    LET i == Find(s, c)
    IN IF i = 0 THEN <<s>>
       ELSE <<SubSeq(s, 1, i - 1)>> \o Split(SubSeq(s, i + 1, Len(s)), c)

\* str::parse::<f64> on strings of digits, '.', hex letters and '*': Ok for
\* digits with at most one '.', at least one digit.
ParsesAsF64(s) ==
    /\ \A i \in 1 .. Len(s) : s[i] = "." \/ (Find(Digits, s[i]) # 0)
    /\ \E i \in 1 .. Len(s) : s[i] # "."
    /\ \A i, j \in 1 .. Len(s) : (s[i] = "." /\ s[j] = ".") => i = j

RECURSIVE Num(_)
Num(s) == IF s = <<>> THEN 0 ELSE (Num(SubSeq(s, 1, Len(s) - 1)) * 10) + (Find(Digits, s[Len(s)]) - 1)

\* The f64 of a string that parses, held in thousandths (the strings here have
\* at most three digits after the '.').
F64Milli(s) ==
    LET dot == Find(s, ".")
        whole == IF dot = 0 THEN s ELSE SubSeq(s, 1, dot - 1)
        frac == IF dot = 0 THEN <<>> ELSE SubSeq(s, dot + 1, Len(s))
    IN (Num(whole) * 1000) + Num(SubSeq(frac \o <<"0", "0", "0">>, 1, 3))

RECURSIVE GroupScan(_, _, _, _, _)
\* "Find all parenthesized values": the depth counter over data_part from
\* index i on.
GroupScan(data_part, i, depth, start, values) ==
    IF i > Len(data_part) THEN values
    ELSE IF data_part[i] = "("
         THEN GroupScan(data_part, i + 1, depth + 1, IF depth = 0 THEN i + 1 ELSE start, values)
    ELSE IF data_part[i] = ")"
         THEN GroupScan(data_part, i + 1, depth - 1, start,
                        IF depth - 1 = 0
                        THEN Append(values, SubSeq(data_part, start, i - 1)) ELSE values)
    ELSE GroupScan(data_part, i + 1, depth, start, values)

\* One subfield: a number is a value; what does not parse and is at most 16
\* hex digits is the status.
RECURSIVE PartScan(_, _)
PartScan(parts, acc) ==
    IF parts = <<>> THEN acc
    ELSE LET part == Trim(Head(parts))
             star_pos == Find(part, "*")
             num_str == IF star_pos # 0 THEN SubSeq(part, 1, star_pos - 1) ELSE part
         IN PartScan(Tail(parts),
              IF part = <<>> THEN acc
              ELSE IF ParsesAsF64(num_str)
                   THEN [acc EXCEPT !.values = Append(@, F64Milli(num_str))]
              ELSE IF Len(part) <= 16 /\ \A i \in 1 .. Len(part) : IsHexDigit(part[i])
                   THEN [acc EXCEPT !.status = Some(part)]
              ELSE acc)

RECURSIVE ValueScan(_, _)
\* for val in &values[1..]: the comma separated subfields of every group
ValueScan(vals, acc) ==
    IF vals = <<>> THEN acc
    ELSE ValueScan(Tail(vals), PartScan(Split(Head(vals), ","), acc))

\* The body of the loop over raw_data.lines(): the entry pushed for the line,
\* or None when the line is skipped.
profile_line(line) ==
    LET trimmed == Trim(SelectSeq(line, NotControl))
        data_part == IF StartsWith(trimmed, <<"P", ".">>)
                     THEN (IF Find(trimmed, "(") = 0 THEN <<>>
                           ELSE SubSeq(trimmed, Find(trimmed, "("), Len(trimmed)))
                     ELSE IF StartsWith(trimmed, <<"(">>) THEN trimmed
                     ELSE <<>>
        values == GroupScan(data_part, 1, 0, 1, <<>>)
        acc == ValueScan(Tail(values), [values |-> <<>>, status |-> None])
    IN IF trimmed = <<>> THEN None
       ELSE IF StartsWith(trimmed, <<"L", "P", "C", "H", ":">>)
               \/ StartsWith(trimmed, <<"L", "P", "C", ":">>) THEN None
       ELSE IF data_part = <<>> THEN None
       ELSE IF Len(values) < 2 THEN None
       ELSE IF acc.values = <<>> /\ acc.status = None THEN None
       ELSE Some([timestamp |-> values[1], values |-> acc.values, status |-> acc.status])

\* The lines: a header of either dialect, a metadata header, or a header
\* behind the STX of the block; the timestamp group; up to MaxGroups groups.
Timestamp == <<"2", "5", "-", "0", "1", "-", "3", "1", ",", "1", "2", ":", "4", "5">>
ProfileHeaders == {<<"P", ".", "0", "1">>, <<>>, <<"STX", "P", ".", "0", "1">>,
                   <<"L", "P", "C", ":">>}
GroupTexts == {<<"0", "0", "1", ".", "2", "3", "4">>, <<"0", "0", "0", ".", "5", "6", "7">>,
               <<"0", "0">>, <<"A", "0">>, <<"1", ".", "5", "*", "k">>,
               <<"1", ",", "2">>, <<>>}
MaxGroups == 3

RECURSIVE Parenthesized(_)
Parenthesized(groups) ==
    IF groups = <<>> THEN <<>>
    ELSE <<"(">> \o Head(groups) \o <<")">> \o Parenthesized(Tail(groups))

codec_profile_line ==
    /\ codec.fn = "none"
    /\ \E header \in ProfileHeaders, groups \in TextsUpTo(GroupTexts, MaxGroups) :
         LET line == header \o Parenthesized(<<Timestamp>> \o groups)
         IN codec' = [fn |-> "read_load_profile", header |-> header, groups |-> groups,
                      arg |-> line, out |-> profile_line(line)]
    /\ UNCHANGED <<session, hdl, wire, th, rd>>

(***************************************************************************)
(* io: the baud resolvers on connection types, configured bauds and meters *)
(***************************************************************************)
\* The connection types of the front end, one more that the resolvers treat
\* as serial, and the configured bauds: auto (0), rates of the baud map and
\* one that is not in it.
ResolverTypes == ConnTypes \cup {"rs485"}
ResolverBauds == ConfiguredBauds \cup {300, 19200}
codec_initial_bauds ==
    /\ codec.fn = "none"
    /\ \E connection_type \in ResolverTypes, configured_baud \in ResolverBauds :
          codec' = [fn |-> "resolve_initial_bauds",
                    arg |-> [connection_type |-> connection_type,
                             configured_baud |-> configured_baud],
                    out |-> resolve_initial_bauds(connection_type, configured_baud)]
    /\ UNCHANGED <<session, hdl, wire, th, rd>>

codec_target_baud ==
    /\ codec.fn = "none"
    /\ \E connection_type \in ResolverTypes, configured_baud \in ResolverBauds,
          meter_baud_char \in BaudChars :
          LET meter_max_baud == baud_rate_from_char(meter_baud_char)[1]
          IN codec' = [fn |-> "resolve_target_baud",
                       arg |-> [connection_type |-> connection_type,
                                configured_baud |-> configured_baud,
                                meter_max_baud |-> meter_max_baud,
                                meter_baud_char |-> meter_baud_char],
                       out |-> resolve_target_baud(connection_type, configured_baud,
                                                   meter_max_baud, meter_baud_char)]
    /\ UNCHANGED <<session, hdl, wire, th, rd>>

(***************************************************************************)
(* The functions of the codec, each applied once to an input               *)
(***************************************************************************)
NextCodec ==
    \/ batch_lookup
    \/ codec_password
    \/ codec_read
    \/ codec_write
    \/ codec_load_profile
    \/ codec_break
    \/ codec_verify
    \/ codec_parse_identification
    \/ codec_parse_obis
    \/ codec_profile_line
    \/ codec_initial_bauds
    \/ codec_target_baud

SpecCodec == Init /\ [][NextCodec]_vars

(***************************************************************************)
(* Properties                                                              *)
(***************************************************************************)
Me == T(Main)
AtReturn(op) == Me.pc = "idle" /\ Me.op = op

\* C1: whenever the session's port is none, connected is false and
\* in_programming_mode is false, in every state a sequence of commands reaches.
C1_NoPortNoSession == port = None => (~connected /\ ~in_programming_mode)

\* C1 witness: end_session found a stored port, sent break and released it.
C1_Witness == AtReturn("end_session") /\ Me.res = "ok" /\ Me.sent /\ port = None

\* C2: while one caller's command is in progress on the port (it holds an open
\* port of its own, or it is between two frames of sync_time), no other caller
\* transmits a frame.
Holding(t) == IsSome(T(t).port) \/ (T(t).pc = "st_write" /\ T(t).idx > 1)
C2_NoInterleaving ==
    [][\A t \in Threads : Holding(t) =>
          \A u \in Threads \ {t} : ~(wire' # wire /\ wire'.by = u)]_vars

\* C3: when a command returns a failure, the session holds no port and no
\* handle of the device is open; stated for the failures the claim names, those
\* of write_obis, sync_time and read_obis after their frame was written.
C3_FailureLeavesNoPort ==
    (Me.pc = "idle" /\ Me.res = "err" /\ Me.sent
        /\ Me.op \in {"write_obis", "sync_time", "read_obis"})
    => (port = None /\ DeviceFree)

\* C4: in a command that opened a port, an I/O error or idle timeout is
\* followed by a break frame on that port before the port is released.
C4_BreakBeforeRelease ==
    (Me.fault # "none" /\ Me.drop # "none") => Me.drop = "break"

\* C5: read_until_etx has found_etx = true only when it has stopped and an ETX
\* in the buffer has a byte after it, and it never goes on reading, nor stops
\* without found_etx, once an ETX in the buffer has a byte after it.
EtxThenByte == \E i \in 1 .. (Len(rd.buf) - 1) : rd.buf[i] = "ETX"
C5_StopsOnEtxAndByte ==
    rd.pc # "off" =>
       /\ rd.found_etx => (rd.pc = "done" /\ EtxThenByte)
       /\ EtxThenByte => (rd.pc = "done" /\ rd.found_etx)

\* C5 witness: the ETX was the last byte of an earlier read and the byte after
\* it arrived in the latest read.
C5_Witness ==
    /\ rd.pc = "done"
    /\ rd.found_etx
    /\ rd.prev >= 1
    /\ rd.buf[rd.prev] = "ETX"
    /\ \A i \in 1 .. (rd.prev - 1) : rd.buf[i] # "ETX"

\* C6: after authenticate returns success the session holds the port with
\* connected and in_programming_mode; after it returns anything else, the
\* password having been valid, the session has no port and both flags false.
C6_AuthenticateOutcome ==
    (AtReturn("authenticate") /\ Me.argok) =>
        IF Me.res = "ok"
        THEN IsSome(port) /\ connected /\ in_programming_mode
        ELSE port = None /\ ~connected /\ ~in_programming_mode

\* C7: write_obis transmits its W2 frame only when the session is connected
\* and in programming mode; otherwise it returns an error, transmits nothing
\* and leaves the session state as it was.
C7_WriteNeedsProgrammingMode ==
    [][Me.pc = "write_obis" =>
         /\ th'[Main].sent => (connected /\ in_programming_mode)
         /\ ~(connected /\ in_programming_mode) =>
               /\ th'[Main].res = "err"
               /\ ~th'[Main].sent
               /\ wire' = wire
               /\ session' = session]_vars

\* C7 witness: write_obis was rejected on a session that is connected but not
\* in programming mode.
C7_Witness ==
    /\ AtReturn("write_obis") /\ Me.res = "err" /\ ~Me.sent
    /\ connected /\ IsSome(port) /\ ~in_programming_mode

\* C8: after connect returns a failure nothing of an earlier session remains,
\* and after it returns success the session holds an open port that connect
\* opened, connected, an identity, and no programming mode.
C8_ConnectStartsClean ==
    AtReturn("connect") =>
        IF Me.res = "ok"
        THEN /\ IsSome(port) /\ hdl[port[1]].open /\ hdl[port[1]].by = "connect"
             /\ connected /\ IsSome(identity) /\ IsSome(params)
             /\ ~in_programming_mode
        ELSE params = None /\ identity = None /\ ~in_programming_mode

\* C9: read_short drains only a port it opened itself, after a break on any
\* stored port, a request and a Mode 6 ACK; read_full, finding a stored port
\* with negotiated_baud > 0, goes straight to draining that port and has
\* transmitted nothing when it drains.
C9_Drained ==
    /\ (Me.pc = "drain" /\ Me.op = "read_short") =>
          /\ Me.stored \in {"none", "break"}
          /\ port = None
          /\ hdl[Me.port[1]].by = "read_short"
          /\ hdl[Me.port[1]].req
          /\ hdl[Me.port[1]].ack = "6"
          /\ wire.frame = "ack" /\ wire.op = "read_short"
    /\ (Me.pc = "drain" /\ Me.op = "read_full" /\ Me.reuse) =>
          /\ hdl[Me.port[1]].by # "read_full"
          /\ wire.op # "read_full"
C9_TakesStoredPort ==
    (Me.pc = "rf_take" /\ IsSome(port) /\ negotiated_baud > 0) =>
        (th'[Main].pc = "drain" /\ th'[Main].port = port /\ wire' = wire)
C10_ReuseOnlyAfterConnect ==
    (Me.pc = "drain" /\ Me.op = "read_full" /\ Me.reuse) =>
        /\ hdl[Me.port[1]].open
        /\ hdl[Me.port[1]].by = "connect"
        /\ hdl[Me.port[1]].ack = "0"

\* C10 witness: read_full is draining the port connect left in the session.
C10_Witness ==
    /\ Me.pc = "drain" /\ Me.op = "read_full" /\ Me.reuse
    /\ hdl[Me.port[1]].by = "connect"

\* C11: the probe opens the bauds of the resolved sequence in order, one
\* attempt after the other, and once an attempt has yielded a parsable
\* identification the command opens no port and sends no request any more.
Identified(r) == IsSome(r.ident) \/ IsSome(parse_identification(r.resp))
Probing == {"probe_open", "probe_req", "probe_read"}
C11_ProbeStep ==
    /\ (Me.pc = "probe_open" /\ th'[Main].pc = "probe_req") =>
          /\ Me.idx \in 1 .. Len(Bauds(Main))
          /\ hdl'[th'[Main].port[1]].baud = Bauds(Main)[Me.idx]
          /\ th'[Main].idx = Me.idx
    /\ (Me.pc \in Probing /\ th'[Main].pc \in Probing) =>
          th'[Main].idx \in {Me.idx, Me.idx + 1}
    /\ (Me.pc # "idle" /\ Identified(Me)) =>
          /\ th'[Main].pc \notin Probing
          /\ \A h \in Handles : hdl'[h].open => hdl[h].open
          /\ ~(wire' # wire /\ wire'.frame = "req")
C11_ProbeOrder == [][C11_ProbeStep]_vars

\* C11 witness: the second baud of a three-baud sequence gave the
\* identification and the command goes on to the mode ACK.
C11_Witness ==
    /\ Me.pc = "ack" /\ Me.idx = 2 /\ Len(Bauds(Main)) = 3
    /\ hdl[Me.port[1]].baud = Bauds(Main)[2]

\* C12: in connect, received bytes that do not parse are followed by a probe
\* at the next baud, and connect gives up probing only after the last baud of
\* the sequence was tried.
C12_ConnectStep ==
    (Me.op = "connect" /\ Me.pc \in Probing \cup {"c_parse"}) =>
       /\ (Me.pc = "c_parse" /\ ~IsSome(parse_identification(Me.resp))
             /\ Me.idx < Len(Bauds(Main))) =>
            (th'[Main].pc = "probe_open" /\ th'[Main].idx = Me.idx + 1)
       /\ (th'[Main].pc = "idle" /\ th'[Main].res = "err") =>
            Me.idx >= Len(Bauds(Main))
C12_ConnectTriesNextBaud == [][C12_ConnectStep]_vars

\* C13: after the password frame was sent the reply decides the outcome of
\* authenticate: ACK gives success; NAK and SOH "B0" give the rejection; any
\* other reply gives the error that carries the unexpected byte; an empty or
\* timed-out read gives the no-response error.
C13_AuthReplyOutcome ==
    (AtReturn("authenticate") /\ Me.reply # "none") =>
        CASE Me.reply = "ACK" -> Me.res = "ok"
          [] Me.reply \in {"NAK", "SOH_B0"} -> Me.res = "false"
          [] Me.reply \in {"SOH_other", "other"} ->
                Me.res = "err" /\ Me.err = "unexpected_byte"
          [] Me.reply \in {"empty", "timeout"} ->
                Me.res = "err" /\ Me.err \in {"empty", "timeout"}
          [] OTHER -> TRUE

\* C14: when the meter answers the password frame with NAK, authenticate
\* writes a break frame to the port before it releases the port.
C14_BreakOnNak ==
    (AtReturn("authenticate") /\ Me.reply = "NAK") =>
        (Me.drop = "break" /\ wire.frame = "B0")

\* C15: authenticate with a password that is not 8 ASCII digits returns an
\* error in its first step: no port is opened or closed, nothing is written,
\* and the session state stays as it was.
C15_Step ==
    /\ (Me.pc = "idle" /\ th'[Main].op = "authenticate" /\ ~th'[Main].argok) =>
          (th'[Main].pc = "validate" /\ session' = session /\ hdl' = hdl /\ wire' = wire)
    /\ (Me.pc = "validate" /\ Me.op = "authenticate" /\ ~Me.argok) =>
          /\ th'[Main].pc = "idle" /\ th'[Main].res = "err"
          /\ session' = session /\ hdl' = hdl /\ wire' = wire
C15_BadPasswordNoIO == [][C15_Step]_vars

\* C15 witness: the bad password was refused while a connection was held, and
\* the connection is still there with connect's ACK the last frame written.
C15_Witness ==
    /\ AtReturn("authenticate") /\ ~Me.argok /\ Me.res = "err"
    /\ IsSome(port) /\ connected /\ hdl[port[1]].open
    /\ wire.frame = "ack" /\ wire.op = "connect"

\* C16: disconnect always returns success and leaves the session empty and
\* the device closed; it writes a break only if a port was held; invoked on
\* the state a disconnect left, it changes nothing and writes nothing.
EmptySession ==
    /\ port = None /\ params = None /\ identity = None
    /\ ~connected /\ ~in_programming_mode
C16_Step ==
    Me.pc = "disconnect" =>
       /\ th'[Main].pc = "idle" /\ th'[Main].res = "ok"
       /\ th'[Main].sent = IsSome(port)
       /\ port = None => wire' = wire
       /\ IsSome(port) => (wire'.frame = "B0" /\ ~hdl'[port[1]].open)
       /\ (EmptySession /\ negotiated_baud = 300) =>
             (session' = session /\ hdl' = hdl /\ wire' = wire)
C16_DisconnectIdempotent ==
    [](AtReturn("disconnect") => (EmptySession /\ negotiated_baud = 300 /\ DeviceFree))
    /\ [][C16_Step]_vars

\* C16 witness: a disconnect that wrote nothing, after a disconnect whose
\* break is still the last frame on the wire.
C16_Witness ==
    /\ AtReturn("disconnect") /\ Me.res = "ok" /\ ~Me.sent
    /\ wire.frame = "B0" /\ wire.op = "disconnect"

\* C17: sync_time writes 0.9.1, 0.9.2, 0.9.5 in this order, each after the
\* ACK of the one before; the first write that fails ends the command with
\* that failure and nothing more is written; success needs three ACKs.
C17_Step ==
    /\ Me.pc = "st_write" =>
          /\ Me.idx \in 1 .. 3
          /\ wire' # wire => wire'.frame = SyncFrames[Me.idx]
          /\ IF th'[Main].pc = "st_reply"
               THEN wire'.frame = SyncFrames[Me.idx] /\ th'[Main].idx = Me.idx
               ELSE th'[Main].pc = "idle" /\ th'[Main].res = "err"
    /\ Me.pc = "st_reply" =>
          /\ wire' = wire
          /\ th'[Main].pc = "st_write" =>
                (th'[Main].idx = Me.idx + 1 /\ th'[Main].reply = "ACK")
          /\ th'[Main].pc = "idle" =>
                /\ th'[Main].res = "ok" <=> (Me.idx = 3 /\ th'[Main].reply = "ACK")
                /\ th'[Main].res \in {"ok", "err"}
          /\ th'[Main].reply # "ACK" =>
                (th'[Main].pc = "idle" /\ th'[Main].res = "err")
C17_SyncTimeOrder ==
    []( /\ (Me.pc = "st_write" /\ Me.idx > 1) => wire.frame = SyncFrames[Me.idx - 1]
        /\ Me.pc = "st_reply" => wire.frame = SyncFrames[Me.idx] )
    /\ [][C17_Step]_vars

\* C17 witness: sync_time returned success and its last frame wrote 0.9.5.
C17_Witness ==
    AtReturn("sync_time") /\ Me.res = "ok" /\ wire.frame = SyncFrames[3]

\* C18: end_session on a connected session writes a break and leaves the
\* session with no port, not connected and not in programming mode; on a
\* session that is not connected it returns an error, writes nothing and
\* changes nothing.
C18_Step ==
    Me.pc = "end_session" =>
       IF connected
       THEN /\ th'[Main].pc = "idle" /\ th'[Main].res = "ok" /\ th'[Main].sent
            /\ wire'.frame = "B0" /\ wire'.op = "end_session"
            /\ port' = None /\ ~connected' /\ ~in_programming_mode'
            /\ \A h \in Handles : ~hdl'[h].open
       ELSE /\ th'[Main].pc = "idle" /\ th'[Main].res = "err" /\ ~th'[Main].sent
            /\ session' = session /\ hdl' = hdl /\ wire' = wire
C18_EndSession == [][C18_Step]_vars

\* C18 witness: end_session was refused on a session that is not connected
\* and still holds the identity and parameters of an earlier connect.
C18_Witness ==
    /\ AtReturn("end_session") /\ Me.res = "err" /\ ~Me.sent
    /\ ~connected /\ IsSome(identity) /\ IsSome(params)

\* C19: no command holds the session mutex while it waits on serial I/O, so a
\* status query that was issued never finds the mutex held by a caller that
\* is waiting for the meter.
C19_StatusNeverBlocked ==
    \A u \in Threads : T(u).pc = "get_connection_status" => LockFree(u)

\* C20: whenever at least one byte was received, read_short and read_full go
\* on to build their result from the received bytes, whether the BCC matches,
\* does not match or could not be compared.
C20_BccNeverFails ==
    (rd.pc = "done" /\ rd.out # "none" /\ Len(rd.buf) >= 1) =>
        rd.out \in {"bcc_ok", "bcc_mismatch", "unverified"}

\* C21: a read_short, read_full, read_obis_batch or read_load_profile whose read
\* loop ended on the idle timeout without ETX returns an error.
C21_IdleTimeoutIsError ==
    \A op \in {"read_short", "read_full", "read_obis_batch", "read_load_profile"} :
        (AtReturn(op) /\ Me.fault = "idle_timeout") => Me.res = "err"

\* C22: when read_until_etx has returned with fewer bytes than buffer_size and
\* none of them an ETX, the port had been silent for more than the idle timeout
\* since the last byte it delivered, found_etx is false, and the data are the
\* delivered bytes, all of them and in order.
NoEtx(buf) == \A i \in 1 .. Len(buf) : buf[i] # "ETX"
C22_SilentAfterPartial ==
    (rd.pc = "done" /\ Len(rd.delivered) < BufferSize /\ NoEtx(rd.delivered)) =>
        /\ rd.since > IdleTicks
        /\ ~rd.found_etx
        /\ rd.buf = rd.delivered

\* C22 witness: bytes without ETX arrived in two reads, fewer than the buffer
\* holds, and the call has returned.
C22_Witness ==
    /\ rd.pc = "done"
    /\ rd.out = "none"
    /\ NoEtx(rd.delivered)
    /\ rd.prev >= 1
    /\ Len(rd.delivered) > rd.prev
    /\ Len(rd.delivered) < BufferSize

\* C23: the drain of read_load_profile always terminates, also against a meter
\* that keeps sending bytes without ETX and without an idle gap.
C23_ProfileDrainTerminates == (rd.pc = "lp_loop") ~> (rd.pc \in {"lp_done", "lp_failed"})

\* C24: for a requested code, read_obis_batch returns what the lines strictly
\* between STX and ETX of the received block give for it: the value (with
\* *unit) of the line that carries the code, the empty string when none does.
BetweenStxEtx(raw) == SubSeq(raw, Find(raw, "STX") + 1, Find(raw, "ETX") - 1)
C24_BatchValueFromBlock ==
    codec.fn = "read_obis_batch" =>
        codec.out = BatchValue(BetweenStxEtx(codec.raw), codec.code)

\* C25: the last byte of every command frame the codec builds (P1, R2, W2,
\* load-profile R2, break) is the XOR of the bytes from the one right after
\* SOH through ETX: the two id bytes, STX, the body and ETX.
FrameBuilders ==
    {"build_password_command", "build_read_command", "build_write_command",
     "build_load_profile_command", "build_break_command"}
C25_BccCoversAfterSoh ==
    codec.fn \in FrameBuilders =>
        /\ codec.out[1] = ByteVal("SOH")
        /\ codec.out[Len(codec.out) - 1] = ByteVal("ETX")
        /\ codec.out[Len(codec.out)] = calculate_bcc(SubSeq(codec.out, 2, Len(codec.out) - 1))

\* C26: the receiver accepts an inbound frame exactly when the byte after ETX
\* is the XOR of the bytes from STX through ETX, the span the builders use: a
\* frame SOH id id STX body ETX BCC built by the codec verifies as Ok(true).
C26_ReceiverUsesSenderSpan ==
    LET data == codec.arg
        stx_idx == PositionOf(data, ByteVal("STX"))
        etx_idx == PositionOf(data, ByteVal("ETX"))
    IN (/\ codec.fn = "verify_bcc"
        /\ stx_idx # 0 /\ stx_idx < etx_idx /\ etx_idx < Len(data)) =>
          (codec.out = "Ok(true)"
             <=> data[etx_idx + 1] = calculate_bcc(SubSeq(data, stx_idx, etx_idx)))

C28_ParsedIdentIsComplete ==
    (codec.fn = "parse_identification" /\ codec.out.res = "Some") =>
        LET ident == codec.out.ident[1]
        IN /\ ident.manufacturer # <<>>
           /\ ident.generation # <<>>
           /\ ident.edas_id # <<>>
           /\ ident.model # <<>>
           /\ ident.baud_char \in BaudChars
           /\ Some(ident.max_baud_rate) = baud_rate_from_char(ident.baud_char)

\* C29: parse_identification terminates normally on every line, and returns
\* nothing when the leading '/' or one of the markers '<', '>', '(', ')' is
\* missing or the markers are not in that order.
MarkersInOrder(line) ==
    /\ Find(line, "<") # 0
    /\ Find(line, "<") < Find(line, ">")
    /\ Find(SubSeq(line, Find(line, ">") + 1, Len(line)), "(") # 0
    /\ Find(SubSeq(line, Find(line, ">") + 1, Len(line)), "(")
         < Find(SubSeq(line, Find(line, ">") + 1, Len(line)), ")")
C29_ParseNeverAborts ==
    codec.fn = "parse_identification" =>
        /\ codec.out.res # "panic"
        /\ (codec.arg = <<>> \/ codec.arg[1] # "/" \/ ~MarkersInOrder(codec.arg))
              => codec.out.res = "None"

\* C30: for every OBIS code c without a parenthesis, parse_obis_response on
\* the body of build_read_command(c), the bytes strictly between STX and ETX,
\* gives an item with code c, an empty value and no unit.
NoParenthesis(c) == \A i \in 1 .. Len(c) : c[i] \notin {"(", ")"}
C30_ReadBodyRoundTrip ==
    (codec.fn = "parse_obis_response" /\ NoParenthesis(codec.obis)) =>
        codec.out = Some([code |-> codec.obis, value |-> <<>>, unit |-> None])

\* C31: the line P.01(25-01-31,12:45)(001.234)(000.567)(00) gives one record
\* with that timestamp, the values 1.234 and 0.567 and the status "00"; and
\* in every dialect A line a last group made only of hex digits is the
\* record's status and is not among the values.
S5Groups == <<<<"0", "0", "1", ".", "2", "3", "4">>, <<"0", "0", "0", ".", "5", "6", "7">>,
                   <<"0", "0">>>>
HexOnly(g) == g # <<>> /\ \A i \in 1 .. Len(g) : IsHexDigit(g[i])
C31_TrailingHexIsStatus ==
    (/\ codec.fn = "read_load_profile"
     /\ codec.header = <<"P", ".", "0", "1">>
     /\ codec.groups # <<>>
     /\ HexOnly(codec.groups[Len(codec.groups)])) =>
        /\ IsSome(codec.out)
        /\ codec.out[1].timestamp = Timestamp
        /\ codec.out[1].status = Some(codec.groups[Len(codec.groups)])
        /\ codec.groups = S5Groups
             => codec.out[1].values = <<1234, 567>>

\* C32: resolve_initial_bauds returns [300] for optical with any configured
\* baud, [configured] for any other type with a configured baud above 0,
\* [9600, 300] for auto with configured baud 0 and [9600, 300, 19200] for
\* every other type with configured baud 0.
C32_InitialBauds ==
    codec.fn = "resolve_initial_bauds" =>
        LET t == codec.arg.connection_type
            b == codec.arg.configured_baud
        IN /\ t = "optical" => codec.out = <<300>>
           /\ (t # "optical" /\ b > 0) => codec.out = <<b>>
           /\ (t = "auto" /\ b = 0) => codec.out = <<9600, 300>>
           /\ (t \notin {"optical", "auto"} /\ b = 0) => codec.out = <<9600, 300, 19200>>

C32_Witness ==
    /\ codec.fn = "resolve_initial_bauds"
    /\ codec.arg.connection_type = "auto"
    /\ codec.arg.configured_baud = 0
    /\ codec.out = <<9600, 300>>

\* The baud map of the identification line, as the set of its pairs.
BaudMap == {<<c, baud_rate_from_char(c)[1]>> : c \in BaudChars}

\* C33: resolve_target_baud returns as target the meter's max baud when the
\* connection type is optical or the configured baud is 0, and the configured
\* baud otherwise; the baud char is the one the baud map gives the target, or
\* the identification's own baud char when the target is not in the map.
C33_TargetBaud ==
    codec.fn = "resolve_target_baud" =>
        LET a == codec.arg
            negotiated == a.connection_type = "optical" \/ a.configured_baud = 0
        IN /\ negotiated => codec.out.target = a.meter_max_baud
           /\ ~negotiated => codec.out.target = a.configured_baud
           /\ \A c \in BaudChars :
                 <<c, codec.out.target>> \in BaudMap => codec.out.baud_char = c
           /\ (\A c \in BaudChars : <<c, codec.out.target>> \notin BaudMap)
                 => codec.out.baud_char = a.meter_baud_char

C33_Witness ==
    /\ codec.fn = "resolve_target_baud"
    /\ codec.arg.connection_type = "optical"
    /\ codec.arg.configured_baud = 9600
    /\ codec.arg.meter_baud_char = "6"
    /\ codec.out = [target |-> 19200, baud_char |-> "6"]

C33_WitnessOutsideMap ==
    /\ codec.fn = "resolve_target_baud"
    /\ codec.arg.connection_type = "serial"
    /\ codec.arg.configured_baud = 57600
    /\ codec.out = [target |-> 57600, baud_char |-> codec.arg.meter_baud_char]

\* The commands that work from the parameters a connect has stored.
OnStoredParams == {"authenticate", "read_short", "read_full", "read_obis_batch",
                   "read_load_profile"}

\* C34: authenticate, read_short, read_full, read_obis_batch and
\* read_load_profile need only the parameters a successful connect has
\* stored: no step of these commands removes the stored parameters, so the
\* next of them finds the parameters whatever sequence of them ran before.
C34_StoredParamsRemain ==
    [][(IsSome(params) /\ Me.op \in OnStoredParams) => IsSome(params')]_vars

\* C35: the drain of read_load_profile does not stop on ETX until at least one
\* further byte (the BCC) has been received: when it stops with found_etx, a
\* byte follows the ETX in what was received.
C35_ProfileStopsAfterBcc ==
    (rd.pc = "lp_done" /\ rd.found_etx) => Find(rd.chunk, "ETX") < Len(rd.chunk)

\* What is left to the read loop: the free bytes of the buffer, and the read
\* intervals the idle timeout still allows after the latest byte.
LoopBudget(r) == ((BufferSize - Len(r.buf)) * (IdleTicks + 2)) + ((IdleTicks + 1) - r.idle)

\* C36: read_until_etx returns under every port behaviour.  Every pass of the
\* loop that does not return uses up some of a bounded budget (a byte of the
\* buffer or a read interval of the idle timeout); the loop goes on only while
\* fewer than buffer_size bytes are stored and the idle timeout has not run
\* out, and it never stores more than buffer_size bytes; when the
\* port delivered buffer_size bytes without ETX the call has returned at once,
\* with found_etx = false and those bytes; a hard I/O error ends the call with
\* an error and no data.
C36_LoopPass ==
    (rd.pc = "loop" /\ rd'.pc = "loop") =>
        LoopBudget(rd') < LoopBudget(rd)
C36_Stored ==
    rd.pc # "off" =>
       /\ Len(rd.buf) <= BufferSize
       /\ rd.pc = "loop" => (Len(rd.buf) < BufferSize /\ rd.idle <= IdleTicks)
       /\ (Len(rd.delivered) >= BufferSize /\ NoEtx(rd.delivered)) =>
             /\ rd.pc = "done"
             /\ ~rd.found_etx
             /\ rd.buf = rd.delivered
             /\ rd.since = 0
       /\ rd.pc = "failed" => rd.out = "none"
C36_ReadAlwaysReturns == [](C36_Stored) /\ [][C36_LoopPass]_vars

\* C36 witness: bytes without ETX came in more than one read until the buffer
\* was full, and the call has returned.
C36_Witness ==
    /\ rd.pc = "done"
    /\ rd.out = "none"
    /\ Len(rd.buf) = BufferSize
    /\ NoEtx(rd.delivered)
    /\ rd.prev >= 1
    /\ ~rd.found_etx

\* The positions of a command before its mode ACK is written.
BeforeAck == {"probe_open", "probe_req", "probe_read", "c_parse", "ack"}

\* C37: within a command that performs a handshake, the mode ACK is written to
\* a port only after an identification was parsed from the answer to the
\* request written to that port; the baud of the port is changed only after
\* the ACK was written and flushed, and only when the target baud differs from
\* the baud at which the identification was received; no password, command
\* or data read happens on the port before the ACK.
C37_AckStep ==
    \A h \in Handles :
       (hdl[h].ack = "-" /\ hdl'[h].ack # "-") =>
           /\ Me.port = Some(h)
           /\ hdl[h].req
           /\ IsSome(Me.ident)
           /\ hdl[h].baud = Me.initial_baud
C37_BaudStep ==
    \A h \in Handles :
       (hdl[h].open /\ hdl'[h].open /\ hdl'[h].baud # hdl[h].baud) =>
           /\ hdl[h].ack # "-"
           /\ hdl[h].flushed
           /\ Me.target_baud # Me.initial_baud
           /\ hdl[h].baud = Me.initial_baud
           /\ hdl'[h].baud = Me.target_baud
C37_FrameStep ==
    (wire' # wire /\ wire'.frame \in {"P1", "P2", "LP"}) =>
        (IsSome(Me.port) /\ hdl[Me.port[1]].ack # "-")
C37_NothingBeforeAck ==
    (IsSome(Me.port) /\ hdl[Me.port[1]].ack = "-") => Me.pc \in BeforeAck
C37_HandshakeOrder ==
    /\ [](C37_NothingBeforeAck)
    /\ [][C37_AckStep /\ C37_BaudStep /\ C37_FrameStep]_vars

\* The session's port is one that authenticate opened and put into
\* programming mode with a Mode 1 ACK.
HandedOverByAuthenticate ==
    /\ IsSome(port)
    /\ hdl[port[1]].open
    /\ hdl[port[1]].by = "authenticate"
    /\ hdl[port[1]].ack = "1"

\* C38: in_programming_mode is true only while the session's port is the one
\* a successful authenticate handed over, and write_obis (also as called by
\* sync_time) transmits its W2 frame only on such a port, never on a port that
\* connect opened.
C38_W2Step ==
    (/\ Me.pc \in {"write_obis", "st_write"}
     /\ th'[Main].sent
     /\ wire'.frame \in {"W2"} \cup {SyncFrames[i] : i \in 1 .. Len(SyncFrames)}) =>
        HandedOverByAuthenticate
C38_ProgrammingModeFromAuthenticate ==
    /\ [](in_programming_mode => HandedOverByAuthenticate)
    /\ [][C38_W2Step]_vars

\* C38 witness: after a connect and a successful authenticate, write_obis has
\* transmitted its frame and was answered.
C38_Witness ==
    /\ AtReturn("write_obis") /\ Me.sent /\ Me.res = "ok"
    /\ in_programming_mode
    /\ HandedOverByAuthenticate

\* The handshake on port h is over: the mode ACK was written and the caller
\* is past the baud switch.
PastBaudSwitch(h) ==
    /\ hdl[h].open
    /\ hdl[h].ack # "-"
    /\ ~(Me.port = Some(h) /\ Me.pc = "baud")

\* C39: after the mode ACK and the optional baud switch, the baud configured
\* on the port is the rate that the baud char sent in the ACK denotes, for
\* every connection type, configured baud and meter identity.
C39_PortBaudIsAckBaud ==
    \A h \in Handles :
       PastBaudSwitch(h) => baud_rate_from_char(hdl[h].z) = Some(hdl[h].baud)

\* C39, amended: after the mode ACK and the optional baud switch, the baud
\* configured on the port is the rate that the baud char sent in the ACK
\* denotes whenever the port's baud is a rate of the baud map (connection
\* type optical, configured baud 0, or a configured baud of the map).
C39_PortBaudIsAckBaudInMap ==
    \A h \in Handles :
       (PastBaudSwitch(h) /\ IsSome(char_from_baud_rate(hdl[h].baud))) =>
           baud_rate_from_char(hdl[h].z) = Some(hdl[h].baud)

\* C39 witness: connect probed at 300 baud, sent the ACK with baud char 5 and
\* has switched the port to 9600 baud.
C39_Witness ==
    /\ Me.pc = "c_store"
    /\ Me.initial_baud = 300
    /\ hdl[Me.port[1]].z = "5"
    /\ hdl[Me.port[1]].baud = 9600

\* C40: connected = true implies that the session holds a port, so
\* get_connection_status (is_connected) reports true exactly when connected
\* is set, and never while no port is held.
C40_StatusStep ==
    Me.pc = "get_connection_status" =>
        /\ th'[Main].reply = (IF connected THEN "true" ELSE "false")
        /\ th'[Main].reply = "true" => IsSome(port)
C40_ConnectedHoldsPort ==
    /\ [](connected => IsSome(port))
    /\ [][C40_StatusStep]_vars

\* C40 witness: get_connection_status has reported true on a session that
\* holds a port.
C40_Witness ==
    /\ AtReturn("get_connection_status")
    /\ Me.reply = "true"
    /\ connected
    /\ IsSome(port)

====
